---- MODULE Spec2Model ----
(***************************************************************************)
(* Model of the multi-backend database access layer                        *)
(* (src/utils/database_helpers.py, src/utils/database_helpers_pytds.py):    *)
(* the retry decorator, the connection pool of SQLServerOperator, the      *)
(* operator factory, the memoization of get_data, the loading of the      *)
(* configuration and the methods of the six operator classes.              *)
(*                                                                         *)
(* Four groups of variables, six specifications:                           *)
(*   SpecRetry  one call of a function wrapped by retry_on_transient_error *)
(*   SpecPool   create_connection scopes on one RDBMS operator             *)
(*   SpecMemo / SpecLru   get_data calls against the lru_cache             *)
(*   SpecConfig    load_app_infra, then get_database_operator              *)
(*   SpecOperator  an operator built by the factory or directly, then its  *)
(*                 create_connection, execute_query, get_tables, get_data  *)
(***************************************************************************)
EXTENDS Integers, Sequences, FiniteSets, TLC

VARIABLES
    retry_in,        \* the wrapped call: decorator arguments and what func does on each invocation
    retry_out,       \* what wrapper did: None before the call, then status/error/events
    op,              \* the operator under test: class, how it was built, credentials state
    pool,            \* SQLServerOperator._connection_pool (a list; pop() takes the last element)
    out,             \* connections held by an open create_connection scope
    opened,          \* connections ever created by pytds.connect
    closed,          \* connections on which close() was called
    conn_last,       \* history: the last create_connection step and what it did
    lru,             \* per operator class, the keys of get_data's lru_cache, least recent first
    recent,          \* history: every key ever called, ordered by last call, least recent first
    first_result,    \* history: per key, the names its first completed call returned
    data_last,       \* history: the last get_data call and what it did
    ncalls,          \* history: the number of get_data calls made
    awaiting,        \* the get_data calls suspended at a register_dataset await
    files,           \* the three candidate app_infra.json files, in the order they are tried
    app_infra,       \* what load_app_infra gave: not loaded yet, a configuration, or an error
    call_last,       \* history: the last constructor or operator call and what it did
    store            \* the key/value links and catalog files of the application, the
                     \* PersistentStorage calls in flight, and the last call completed

vars == <<retry_in, retry_out, op, pool, out, opened, closed,
          conn_last, lru, recent, first_result, data_last, ncalls, awaiting,
          files, app_infra, call_last, store>>

retryVars == <<retry_in, retry_out>>
poolVars == <<op, pool, out, opened, closed, conn_last>>
memoVars == <<lru, recent, first_result, data_last, ncalls, awaiting>>
opsVars == <<files, app_infra, call_last>>

None == "None"

SeqToSet(s) == {s[i] : i \in 1..Len(s)}

(***************************************************************************)
(* Exceptions.  An exception value is identified by its type and by the    *)
(* invocation of the wrapped function that raised it.                      *)
(***************************************************************************)

\* pytds exception types a wrapped driver call raises, plus one non-driver type
ExceptionTypes == {"OperationalError", "InterfaceError", "ProgrammingError", "ValueError"}

\* the default transient_errors tuple when pytds is importable, the empty tuple otherwise
transient_errors(has_pytds) ==
    IF has_pytds THEN {"OperationalError", "InterfaceError"} ELSE {}

\* `except Exception: raise` for every type: the mutant of IsTransient that retries everything
IsTransientAny(type, transient) == TRUE

\* `except transient_errors as e` matches the raised exception
IsTransient(type, transient) == type \in transient

\* `last_exception = None`: no exception recorded yet
NoException == [type |-> None, call |-> 0]

\* keeps the first exception instead of the latest one
KeepFirstException(last_exception, e) ==
    IF last_exception = NoException THEN e ELSE last_exception

\* `last_exception = e`
RecordException(last_exception, e) == e

(***************************************************************************)
(* retry_on_transient_error.wrapper, as the loop of the source.  `r` is    *)
(* the wrapped call: r.script[k] is what the k-th invocation of func does  *)
(* ("ok" or the exception type it raises).  The result lists every         *)
(* invocation and every sleep in order.                                    *)
(***************************************************************************)
RECURSIVE wrapper_loop(_, _, _, _, _)
wrapper_loop(r, attempt, delay, last_exception, events) ==
    IF attempt >= r.max_attempts
    THEN \* the for loop is exhausted
         IF last_exception # NoException
         THEN [status |-> "raised", error |-> last_exception, events |-> events]
         ELSE [status |-> "raised",
               error |-> [type |-> "RuntimeError", call |-> 0],
               events |-> events]
    ELSE LET n == attempt + 1
             outcome == r.script[n]
             ev == Append(events, [ev |-> "call", n |-> n])
         IN  IF outcome = "ok"
             THEN [status |-> "returned", error |-> NoException, events |-> ev]
             ELSE LET e == [type |-> outcome, call |-> n]
                  IN  IF IsTransient(outcome, r.transient)
                      THEN IF attempt < r.max_attempts - 1
                           THEN wrapper_loop(r, attempt + 1, delay * r.backoff_factor,
                                             RecordException(last_exception, e),
                                             Append(ev, [ev |-> "sleep", n |-> delay]))
                           ELSE wrapper_loop(r, attempt + 1, delay,
                                             RecordException(last_exception, e), ev)
                      ELSE [status |-> "raised", error |-> e, events |-> ev]

\* never multiplies the delay: every sleep lasts initial_delay
wrapper_constant_delay(r) ==
    LET res == wrapper_loop(r, 0, r.initial_delay, NoException, <<>>)
    IN  [res EXCEPT !.events =
            [k \in 1..Len(res.events) |->
                IF res.events[k].ev = "sleep"
                THEN [ev |-> "sleep", n |-> r.initial_delay]
                ELSE res.events[k]]]

\* `range(max_attempts - 1)`: one attempt fewer than asked for
wrapper_one_attempt_short(r) ==
    wrapper_loop([r EXCEPT !.max_attempts = r.max_attempts - 1], 0, r.initial_delay,
                 NoException, <<>>)

\* keeps the attempt counter of an exhausted call: the next call starts where it ended
wrapper_resuming(r) ==
    wrapper_loop(r, IF call_last.prior THEN r.max_attempts - 1 ELSE 0,
                 r.initial_delay, NoException, <<>>)

wrapper(r) == wrapper_loop(r, 0, r.initial_delay, NoException, <<>>)

\* the delays a wrapped call slept, in order
Delays(res) == [k \in 1..Len(SelectSeq(res.events, LAMBDA x : x.ev = "sleep")) |->
                   SelectSeq(res.events, LAMBDA x : x.ev = "sleep")[k].n]

\* number of invocations of func in a result
Calls(res) == Cardinality({i \in 1..Len(res.events) : res.events[i].ev = "call"})

\* the delays slept, in order
Sleeps(res) == SelectSeq(res.events, LAMBDA x : x.ev = "sleep")

(***************************************************************************)
(* SpecRetry: one wrapped call with arbitrary decorator arguments and an   *)
(* arbitrary behaviour of the wrapped function.                            *)
(***************************************************************************)
MaxAttempts == 4            \* largest max_attempts (and script length) explored

Outcomes == {"ok"} \cup ExceptionTypes

RetryInputs ==
    [script : [1..MaxAttempts -> Outcomes],
     max_attempts : 0..MaxAttempts,
     initial_delay : {1, 2},             \* in units of half a second
     backoff_factor : {2},
     transient : {transient_errors(TRUE), transient_errors(FALSE)}]

\* before the call: nothing invoked, nothing raised
NotCalled == [status |-> "idle", error |-> NoException, events |-> <<>>]

IdleRetry ==
    /\ retry_in = [script |-> [i \in 1..MaxAttempts |-> "ok"], max_attempts |-> 0,
                   initial_delay |-> 1, backoff_factor |-> 2, transient |-> {}]
    /\ retry_out = NotCalled

InitRetry ==
    /\ retry_in \in RetryInputs
    /\ retry_out = NotCalled

\* the caller invokes the wrapped function once
RetryCall ==
    /\ retry_out.status = "idle"
    /\ retry_out' = wrapper(retry_in)
    /\ UNCHANGED retry_in

(***************************************************************************)
(* The operator factory.  `creds` is what constructing the credential set  *)
(* gives: "invalid" (the constructor raises ValidationError or ValueError),*)
(* "unconfigured" (is_configured() is false) or "configured".              *)
(* `importable`: `from .database_helpers_pytds import ...` succeeds.       *)
(***************************************************************************)
DatabaseTags == {"bigquery", "snowflake", "sap", "sqlserver", "no_database"}

CredentialStates == {"invalid", "unconfigured", "configured"}

\* a constructor or factory call that returned an object of `class`
Returned(class) == [status |-> "returned", class |-> class, error |-> None]

\* a call that raised `error`
Raised(error) == [status |-> "raised", class |-> None, error |-> error]

\* Operator.__init__(credentials) of each class: `configured` is what
\* credentials.is_configured() says (for GoogleCredentialsBQ, which has no such
\* method: service_account_key and db_schema are both set), `project_id` whether
\* service_account_key has the key "project_id"
operator_init(class, configured, has_pytds, project_id) ==
    IF class \in {"SnowflakeOperator", "SAPDatasphereOperator"}
    THEN IF ~configured THEN Raised("ValueError") ELSE Returned(class)
    ELSE IF class = "BigQueryOperator"
    THEN IF ~project_id THEN Raised("KeyError") ELSE Returned(class)
    ELSE IF class = "SQLServerOperator"
    THEN IF ~has_pytds THEN Raised("ImportError")
         ELSE IF ~configured THEN Raised("ValueError")
         ELSE Returned(class)
    ELSE Returned(class)       \* SQLServerOperatorPytds, NoDatabaseOperator

\* `except (ValidationError, ValueError)` of the factory's branches
caught_by_factory(error) == error \in {"ValidationError", "ValueError"}

\* one branch of the factory: build the credentials, and when they are configured
\* build the operator; a ValidationError or ValueError falls back to NoDatabaseOperator
factory_branch(class, creds, has_pytds, project_id) ==
    IF creds = "invalid"
    THEN Returned("NoDatabaseOperator")           \* ValidationError, caught
    ELSE IF creds = "configured"
    THEN LET made == operator_init(class, TRUE, has_pytds, project_id)
         IN  IF made.status = "raised" /\ caught_by_factory(made.error)
             THEN Returned("NoDatabaseOperator")
             ELSE made
    ELSE Returned("NoDatabaseOperator")

\* takes every tag that is not one of the three cloud backends for sqlserver
get_database_operator_sqlserver_default(database, creds, importable, has_pytds, project_id) ==
    IF database = "bigquery"
    THEN factory_branch("BigQueryOperator", creds, has_pytds, project_id)
    ELSE IF database = "snowflake"
    THEN factory_branch("SnowflakeOperator", creds, has_pytds, project_id)
    ELSE IF database = "sap"
    THEN factory_branch("SAPDatasphereOperator", creds, has_pytds, project_id)
    ELSE factory_branch("SQLServerOperatorPytds", creds, TRUE, project_id)

get_database_operator(database, creds, importable, has_pytds, project_id) ==
    IF database = "bigquery"
    THEN factory_branch("BigQueryOperator", creds, has_pytds, project_id)
    ELSE IF database = "snowflake"
    THEN factory_branch("SnowflakeOperator", creds, has_pytds, project_id)
    ELSE IF database = "sap"
    THEN factory_branch("SAPDatasphereOperator", creds, has_pytds, project_id)
    ELSE IF database = "sqlserver"
    THEN IF importable
         THEN factory_branch("SQLServerOperatorPytds", creds, has_pytds, project_id)
         ELSE LET made == factory_branch("SQLServerOperator", creds, has_pytds, project_id)
              IN  \* `except ImportError as e`: logged, no database
                  IF made.status = "raised" /\ made.error = "ImportError"
                  THEN Returned("NoDatabaseOperator")
                  ELSE made
    ELSE Returned("NoDatabaseOperator")

\* database_helpers_pytds imports pytds itself: it is importable only where pytds is
ImportStates == {im \in [importable : BOOLEAN, has_pytds : BOOLEAN] :
                    im.importable => im.has_pytds}

\* the operators the factory returns for the sqlserver tag that are RDBMS operators
FactoryRdbmsOperators ==
    {o \in {[class |-> get_database_operator("sqlserver", "configured",
                                               im.importable, im.has_pytds, TRUE).class,
             via |-> "factory", configured |-> TRUE] : im \in ImportStates} :
        o.class # "NoDatabaseOperator"}

(***************************************************************************)
(* The connection pool of SQLServerOperator.  A connection is a number;    *)
(* 0 stands for Python's None.  Whether a session is still alive is the    *)
(* server's and the network's business: each step that probes is given     *)
(* `deadset`, the connections whose session is broken at that moment.      *)
(***************************************************************************)
MaxConns == 6               \* connections pytds.connect may create in one run

max_pool_size == 5

Conns == 1..MaxConns

\* `with conn.cursor() as cursor: cursor.execute("SELECT 1")` returns without raising
probe(conn, deadset) == conn \notin deadset

\* pops the last entry without probing it
get_connection_unprobed(p, deadset, skipped) ==
    IF p = <<>>
    THEN [conn |-> 0, pool |-> p, skipped |-> skipped]
    ELSE [conn |-> p[Len(p)], pool |-> SubSeq(p, 1, Len(p) - 1), skipped |-> skipped]

\* hands out the last entry and leaves it in the pool
get_connection_unpopped(p, deadset, skipped) ==
    IF p = <<>>
    THEN [conn |-> 0, pool |-> p, skipped |-> skipped]
    ELSE [conn |-> p[Len(p)], pool |-> p, skipped |-> skipped]

\* _get_connection_from_pool: pop until a connection answers the probe;
\* `skipped` collects the connections popped and dropped on the way
RECURSIVE get_connection_from_pool(_, _, _)
get_connection_from_pool(p, deadset, skipped) ==
    IF p = <<>>
    THEN [conn |-> 0, pool |-> p, skipped |-> skipped]
    ELSE LET conn == p[Len(p)]
             rest == SubSeq(p, 1, Len(p) - 1)
         IN  IF probe(conn, deadset)
             THEN [conn |-> conn, pool |-> rest, skipped |-> skipped]
             ELSE get_connection_from_pool(rest, deadset, skipped \cup {conn})

\* appends without probing
return_connection_unprobed(p, conn, deadset) ==
    IF Len(p) < max_pool_size THEN Append(p, conn) ELSE p

\* appends without looking at the pool's size
return_connection_uncapped(p, conn, deadset) ==
    IF probe(conn, deadset) THEN Append(p, conn) ELSE p

\* _return_connection_to_pool: the pool after the release of `conn`
return_connection_to_pool(p, conn, deadset) ==
    IF Len(p) < max_pool_size
    THEN IF probe(conn, deadset) THEN Append(p, conn) ELSE p
    ELSE p

\* the decorator arguments of _create_new_connection (delays in half seconds)
create_new_connection_retry(script) ==
    [script |-> script, max_attempts |-> 3, initial_delay |-> 2, backoff_factor |-> 2,
     transient |-> transient_errors(TRUE)]

\* what pytds.connect does on each attempt of one create_connection
ConnectOutcomes == {"ok", "OperationalError", "ProgrammingError"}

\* the wrapper reads the script up to the first invocation that does not raise a
\* transient error, and never past max_attempts = 3: the entries after are "ok"
ConnectScripts ==
    {s \in [1..MaxAttempts -> ConnectOutcomes] :
        \A i \in 1..MaxAttempts :
            (i > 3 \/ \E j \in 1..(i - 1) : s[j] # "OperationalError") => s[i] = "ok"}

\* what the retried _create_new_connection can do: its result for each script
ConnectResults == {wrapper(create_new_connection_retry(script)) : script \in ConnectScripts}

\* raises when the pool has nothing to give, instead of connecting
create_connection_no_fallback(p, deadset, connect, fresh) ==
    LET got == get_connection_from_pool(p, deadset, {})
    IN  IF got.conn # 0
        THEN [conn |-> got.conn, pool |-> got.pool, source |-> "pool",
              skipped |-> got.skipped, exhausted |-> FALSE, error |-> None]
        ELSE [conn |-> 0, pool |-> got.pool, source |-> "none",
              skipped |-> got.skipped, exhausted |-> TRUE, error |-> "PoolExhausted"]

\* SQLServerOperator.create_connection up to its yield: `connect` is the result of
\* the retried _create_new_connection, `fresh` the connection it returns on success
create_connection_enter(p, deadset, connect, fresh) ==
    LET got == get_connection_from_pool(p, deadset, {})
    IN  IF got.conn # 0
        THEN [conn |-> got.conn, pool |-> got.pool, source |-> "pool",
              skipped |-> got.skipped, exhausted |-> FALSE, error |-> None]
        ELSE IF connect.status = "returned"
             THEN [conn |-> fresh, pool |-> got.pool, source |-> "new",
                   skipped |-> got.skipped, exhausted |-> TRUE, error |-> None]
             ELSE [conn |-> 0, pool |-> got.pool, source |-> "none",
                   skipped |-> got.skipped, exhausted |-> TRUE,
                   error |-> connect.error.type]

NoStep == [step |-> "none", conn |-> 0, source |-> "none", alive |-> FALSE,
           skipped |-> {}, exhausted |-> FALSE, error |-> None,
           pushed |-> FALSE, room |-> FALSE, connected |-> FALSE]

IdlePool ==
    /\ op = [class |-> "NoDatabaseOperator", via |-> "factory", configured |-> FALSE]
    /\ pool = <<>>
    /\ out = {}
    /\ opened = {}
    /\ closed = {}
    /\ conn_last = NoStep

InitPool ==
    /\ op \in FactoryRdbmsOperators
    /\ pool = <<>>
    /\ out = {}
    /\ opened = {}
    /\ closed = {}
    /\ conn_last = NoStep

\* the next connection pytds.connect returns
NextConn == Cardinality(opened) + 1

\* `with op.create_connection() as conn:` on the pooled operator, up to the yield
AcquirePooled ==
    /\ op.class = "SQLServerOperator"
    \* only the entries popped are probed: the n on top are broken, the next is not
    /\ \E n \in 0..Len(pool) :
       LET deadset == {pool[i] : i \in (Len(pool) - n + 1)..Len(pool)} IN
       \* _create_new_connection is called only when the pool gave nothing
       \E connect \in IF get_connection_from_pool(pool, deadset, {}).conn = 0
                      THEN ConnectResults
                      ELSE {NotCalled} :
          LET r == IF op.configured
                   THEN create_connection_enter(pool, deadset, connect, NextConn)
                   ELSE [conn |-> 0, pool |-> pool, source |-> "none", skipped |-> {},
                         exhausted |-> FALSE, error |-> "ValueError"]
          IN  /\ r.source = "new" => NextConn <= MaxConns
              /\ pool' = r.pool
              /\ out' = IF r.conn # 0 THEN out \cup {r.conn} ELSE out
              /\ opened' = IF r.source = "new" THEN opened \cup {r.conn} ELSE opened
              /\ conn_last' = [NoStep EXCEPT
                                 !.step = IF r.conn # 0 THEN "acquire" ELSE "raise",
                                 !.conn = r.conn,
                                 !.source = r.source,
                                 !.alive = r.conn # 0 /\ r.conn \notin deadset,
                                 !.skipped = r.skipped,
                                 !.exhausted = r.exhausted,
                                 !.error = r.error,
                                 !.connected = r.exhausted /\ connect.status = "returned"]
    /\ UNCHANGED <<op, closed, retryVars, store, memoVars, opsVars>>

\* the end of a create_connection scope of the pooled operator (normal exit or an
\* exception in the body: the finally clause runs either way); `healthy` says
\* whether the connection's session is alive at that moment
ReleasePooled(c, healthy) ==
    /\ op.class = "SQLServerOperator"
    /\ c \in out
    /\ pool' = return_connection_to_pool(pool, c, IF healthy THEN {} ELSE {c})
    /\ out' = out \ {c}
    /\ conn_last' = [NoStep EXCEPT !.step = "release", !.conn = c,
                                   !.alive = healthy,
                                   !.room = Len(pool) < max_pool_size,
                                   !.pushed = Len(pool') > Len(pool)]
    /\ UNCHANGED <<op, opened, closed, retryVars, store, memoVars, opsVars>>

\* SQLServerOperatorPytds.create_connection up to its yield: one pytds.connect, no retry
AcquirePytds ==
    /\ op.class = "SQLServerOperatorPytds"
    /\ \E outcome \in ConnectOutcomes :
          LET ok == op.configured /\ outcome = "ok"
          IN  /\ ok => NextConn <= MaxConns
              /\ out' = IF ok THEN out \cup {NextConn} ELSE out
              /\ opened' = IF ok THEN opened \cup {NextConn} ELSE opened
              /\ conn_last' = [NoStep EXCEPT
                                 !.step = IF ok THEN "acquire" ELSE "raise",
                                 !.conn = IF ok THEN NextConn ELSE 0,
                                 !.source = IF ok THEN "new" ELSE "none",
                                 !.alive = ok,
                                 !.exhausted = op.configured,
                                 !.connected = ok,
                                 !.error = IF ok THEN None
                                           ELSE IF ~op.configured THEN "ValueError"
                                           ELSE outcome]
    /\ UNCHANGED <<op, pool, closed, retryVars, store, memoVars, opsVars>>

\* the end of a create_connection scope of SQLServerOperatorPytds: connection.close()
ReleasePytds(c, healthy) ==
    /\ op.class = "SQLServerOperatorPytds"
    /\ c \in out
    /\ out' = out \ {c}
    /\ closed' = closed \cup {c}
    /\ conn_last' = [NoStep EXCEPT !.step = "release", !.conn = c,
                                   !.alive = healthy,
                                   !.room = Len(pool) < max_pool_size]
    /\ UNCHANGED <<op, pool, opened, retryVars, store, memoVars, opsVars>>

(***************************************************************************)
(* get_data and its memoization.  functools.lru_cache(maxsize=8) decorates *)
(* the async get_data of four operator classes; the cache belongs to the   *)
(* class's function, so all instances of a class share it, and the key is  *)
(* the argument list (self, *table_names) with the keyword arguments,      *)
(* which are the same in every call modelled here.  What is cached is the  *)
(* coroutine object the call returns.                                      *)
(***************************************************************************)
lru_maxsize == 8

CachedClasses ==
    {"SnowflakeOperator", "BigQueryOperator", "SAPDatasphereOperator", "SQLServerOperator"}

\* no get_data carries the decorator
HasNoCache(class) == FALSE

\* get_data of this class is decorated with functools.lru_cache
HasLruCache(class) == class \in CachedClasses

Remove(s, x) == SelectSeq(s, LAMBDA y : y # x)

\* a cache hit moves the key to the most recently used end
lru_hit(cache, key) == Append(Remove(cache, key), key)

\* a miss that stores nothing
lru_miss_forgets(cache, key) == cache

\* a cache miss stores the key and, beyond maxsize, drops the least recently used one
lru_miss(cache, key) ==
    LET c == Append(cache, key)
    IN  IF Len(c) > lru_maxsize THEN Tail(c) ELSE c

Tables == {"a", "b"}

\* the body of get_data: one pass over the backend for the requested tables.
\* `bad` are the tables whose fetch fails; the others are registered and named.
get_data_body(class, tables, bad) ==
    IF class = "NoDatabaseOperator"
    THEN [names |-> <<>>, registered |-> <<>>, fetch |-> FALSE]
    ELSE LET loaded == SelectSeq(tables, LAMBDA t : t \notin bad)
         IN  [names |-> loaded, registered |-> loaded, fetch |-> TRUE]

NoKey == [class |-> None, self |-> None, tables |-> <<>>]

NoCall == [step |-> "none", key |-> NoKey, outcome |-> None, names |-> <<>>,
           fetch |-> FALSE, registered |-> <<>>, seen |-> FALSE, others |-> FALSE,
           overlap |-> FALSE]

\* position of x in a sequence of distinct elements, 0 when absent
IndexOf(s, x) == IF \E i \in 1..Len(s) : s[i] = x
                 THEN CHOOSE i \in 1..Len(s) : s[i] = x
                 ELSE 0

\* the distinct keys of key's class called since the last call with `key`
OthersSince(key) ==
    LET i == IndexOf(recent, key)
    IN  {recent[j] : j \in {k \in 1..Len(recent) : k > i /\ recent[k].class = key.class}}

IdleMemo ==
    /\ lru = [c \in CachedClasses |-> <<>>]
    /\ recent = <<>>
    /\ first_result = {}
    /\ data_last = NoCall
    /\ ncalls = 0
    /\ awaiting = {}

\* `await o.get_data(*tables, analyst_db=db)` run to its end by a single caller
GetData(o, tables, bad) ==
    LET key == [class |-> o.class, self |-> o.id, tables |-> tables]
        cached == HasLruCache(o.class)
        hit == cached /\ key \in SeqToSet(lru[o.class])
        body == get_data_body(o.class, tables, bad)
    IN  /\ lru' = IF ~cached THEN lru
                  ELSE [lru EXCEPT ![o.class] = IF hit THEN lru_hit(@, key)
                                                ELSE lru_miss(@, key)]
        /\ recent' = Append(Remove(recent, key), key)
        /\ first_result' =
              IF hit \/ \E f \in first_result : f.key = key
              THEN first_result
              ELSE first_result \cup {[key |-> key, names |-> body.names]}
        \* a hit returns the cached coroutine, which was awaited before:
        \* RuntimeError("cannot reuse already awaited coroutine")
        /\ data_last' = [step |-> "get_data", key |-> key,
                         outcome |-> IF hit THEN "RuntimeError" ELSE "returned",
                         names |-> IF hit THEN <<>> ELSE body.names,
                         fetch |-> ~hit /\ body.fetch,
                         registered |-> IF hit THEN <<>> ELSE body.registered,
                         seen |-> key \in SeqToSet(recent),
                         others |-> Cardinality(OthersSince(key)) >= lru_maxsize,
                         overlap |-> FALSE]
        /\ ncalls' = ncalls + 1
        /\ awaiting' = awaiting

\* a task calls `await o.get_data(*tables, analyst_db=db)` while other calls may be
\* suspended.  On a miss (or without cache) a new coroutine runs: it fetches the
\* tables and suspends at `await analyst_db.register_dataset(...)`.  On a hit the
\* call returns the cached coroutine object: awaiting it raises RuntimeError,
\* "coroutine is being awaited already" while the first caller is suspended in it,
\* "cannot reuse already awaited coroutine" once it has finished.
CallGetData(o, tables) ==
    LET key == [class |-> o.class, self |-> o.id, tables |-> tables]
        cached == HasLruCache(o.class)
        hit == cached /\ key \in SeqToSet(lru[o.class])
        body == get_data_body(o.class, tables, {})
        inflight == \E c \in awaiting : c.key = key
    IN  /\ lru' = IF ~cached THEN lru
                  ELSE [lru EXCEPT ![o.class] = IF hit THEN lru_hit(@, key)
                                                ELSE lru_miss(@, key)]
        /\ recent' = Append(Remove(recent, key), key)
        /\ awaiting' = IF hit THEN awaiting
                       ELSE awaiting \cup {[key |-> key, call |-> ncalls + 1,
                                            names |-> body.names, fetch |-> body.fetch,
                                            overlap |-> inflight]}
        /\ data_last' = [step |-> IF hit THEN "get_data" ELSE "suspended",
                         key |-> key,
                         outcome |-> IF hit THEN "RuntimeError" ELSE "pending",
                         names |-> <<>>,
                         fetch |-> ~hit /\ body.fetch,
                         registered |-> <<>>,
                         seen |-> key \in SeqToSet(recent),
                         others |-> FALSE,
                         overlap |-> inflight]
        /\ ncalls' = ncalls + 1
        /\ UNCHANGED first_result

\* the event loop resumes a suspended call: the registrations finish and the call
\* returns its names
ResumeGetData(c) ==
    /\ c \in awaiting
    /\ awaiting' = awaiting \ {c}
    /\ first_result' = IF \E f \in first_result : f.key = c.key
                       THEN first_result
                       ELSE first_result \cup {[key |-> c.key, names |-> c.names]}
    /\ data_last' = [step |-> "get_data", key |-> c.key, outcome |-> "returned",
                     names |-> c.names, fetch |-> c.fetch, registered |-> c.names,
                     seen |-> TRUE, others |-> FALSE, overlap |-> c.overlap]
    /\ UNCHANGED <<lru, recent, ncalls>>

MaxOverlap == 3             \* get_data calls issued in one run of SpecAwait

MaxCalls == 12              \* get_data calls in one run

\* operator instances and requests of SpecMemo
MemoOperators ==
    {[id |-> "pytds", class |-> "SQLServerOperatorPytds"],
     [id |-> "sql", class |-> "SQLServerOperator"]}

MemoTuples == {<<"a">>, <<"a", "b">>}

\* operator instances and requests of SpecLru: three instances of one decorated
\* class, nine keys.  The keys are interchangeable, so a run takes them into use
\* in the order of LruKeys.
LruOperators ==
    {[id |-> "sql1", class |-> "SQLServerOperator"],
     [id |-> "sql2", class |-> "SQLServerOperator"],
     [id |-> "sql3", class |-> "SQLServerOperator"]}

LruTuples == {<<"a">>, <<"b">>, <<"a", "b">>}

LruKeys ==
    <<[self |-> "sql1", tables |-> <<"a">>], [self |-> "sql1", tables |-> <<"b">>],
      [self |-> "sql2", tables |-> <<"a">>], [self |-> "sql1", tables |-> <<"a", "b">>],
      [self |-> "sql3", tables |-> <<"a">>], [self |-> "sql2", tables |-> <<"b">>],
      [self |-> "sql2", tables |-> <<"a", "b">>], [self |-> "sql3", tables |-> <<"b">>],
      [self |-> "sql3", tables |-> <<"a", "b">>]>>

(***************************************************************************)
(* Configuration.  load_app_infra tries app_infra.json in three places;    *)
(* each candidate is missing (FileNotFoundError), holds JSON that AppInfra *)
(* rejects (ValidationError), is not JSON at all (json.JSONDecodeError) or *)
(* is valid.                                                               *)
(***************************************************************************)
FileStates == {"missing", "invalid", "malformed", "valid"}

Candidates == 3             \* app_infra.json, frontend/..., app_backend/...

\* `except (FileNotFoundError, ValidationError)`
caught_by_loader(state) == state \in {"missing", "invalid"}

\* the nested try blocks from candidate i on; `database` is the tag a valid file holds
RECURSIVE read_candidates(_, _, _)
read_candidates(f, i, database) ==
    IF f[i] = "valid"
    THEN [status |-> "returned", database |-> database, error |-> None, candidate |-> i]
    ELSE IF caught_by_loader(f[i])
    THEN IF i < Candidates
         THEN read_candidates(f, i + 1, database)
         ELSE [status |-> "raised", database |-> None, error |-> "ValueError", candidate |-> i]
    ELSE [status |-> "raised", database |-> None, error |-> "JSONDecodeError", candidate |-> i]

\* falls back to a default configuration when no candidate could be read
load_app_infra_defaulting(f, database) ==
    LET r == read_candidates(f, 1, database)
    IN  IF r.status = "raised" /\ r.error = "ValueError"
        THEN [status |-> "returned", database |-> "no_database", error |-> None,
              candidate |-> 0]
        ELSE r

load_app_infra(f, database) == read_candidates(f, 1, database)

NotLoaded == [status |-> "unloaded", database |-> None, error |-> None, candidate |-> 0]

\* no operator constructed yet
NoOperator == [class |-> None, via |-> None, configured |-> FALSE]

\* `exception=None`, or no exception at all
NoCause == [type |-> None, origin |-> "none"]

\* no InvalidGeneratedCode raised
NoError == [type |-> None, code |-> None, exception |-> NoCause, cause |-> NoCause]

\* ---------------------------------------------------------------------------
\* Credential sets (src/utils/credentials.py)
\* ---------------------------------------------------------------------------

CredentialVariants ==
    {"SnowflakeCredentials", "SAPDatasphereCredentials", "SQLServerCredentials"}

CredentialFields ==
    {"host", "port", "user", "password", "account", "database", "warehouse",
     "db_schema", "role", "snowflake_key_path"}

\* the values a validated credential set can hold, field by field: "absent" is
\* None (or a field the variant does not declare), "empty" is a falsy value ("" or
\* 0), "set" is a truthy value. A field declared `str` without default cannot be
\* None; SQLServerCredentials bounds port by ge=1 and rejects an empty db_schema.
CredentialSets(variant) ==
    LET optional == {"absent", "empty", "set"}
        required == {"empty", "set"}
        checked  == {"set"}
        declared ==
            CASE variant = "SnowflakeCredentials" ->
                     [user |-> optional, password |-> optional, account |-> required,
                      database |-> required, warehouse |-> required,
                      db_schema |-> required, role |-> required,
                      snowflake_key_path |-> optional]
              [] variant = "SAPDatasphereCredentials" ->
                     [host |-> required, port |-> required, user |-> required,
                      password |-> required, db_schema |-> required]
              [] variant = "SQLServerCredentials" ->
                     [host |-> required, port |-> checked, user |-> required,
                      password |-> required, database |-> required,
                      db_schema |-> checked]
    IN  {c \in [CredentialFields -> optional] :
            \A f \in CredentialFields :
                IF f \in DOMAIN declared THEN c[f] \in declared[f] ELSE c[f] = "absent"}

\* is_configured of the three variants that define it; c[f] = "set" is the truth
\* value of the field, c[f] # "absent" is `is not None`
is_configured(variant, c) ==
    LET all(fs) == \A f \in fs : c[f] = "set"
    IN  CASE variant = "SnowflakeCredentials" ->
                 IF ~all({"user", "account", "warehouse", "database", "db_schema", "role"})
                 THEN FALSE
                 ELSE LET has_key_auth == c["snowflake_key_path"] # "absent"
                          has_password_auth == c["password"] # "absent"
                      IN  has_key_auth \/ has_password_auth
          [] variant = "SAPDatasphereCredentials" ->
                 all({"host", "port", "user", "password"})
          [] variant = "SQLServerCredentials" ->
                 all({"host", "port", "user", "password", "database", "db_schema"})

NoCallYet == [step |-> "none", database |-> None, creds |-> None, importable |-> FALSE,
              has_pytds |-> FALSE, project_id |-> FALSE, configured |-> FALSE,
              status |-> None, class |-> None, error |-> None,
              body |-> None, yielded |-> FALSE, connected |-> FALSE, released |-> "none",
              result |-> <<>>, submissions |-> 0, rejected |-> FALSE, raised |-> NoError,
              request |-> <<>>, sample_size |-> 0, fetched |-> <<>>, datasets |-> {},
              script |-> <<>>, sql |-> <<>>, connects |-> 0, connect_sleeps |-> <<>>,
              query_sleeps |-> <<>>, prior |-> FALSE, params |-> None,
              timeout |-> 0, in_force |-> 0, schema |-> <<>>,
              registered |-> <<>>, reg_failed |-> FALSE, failing |-> "none",
              fields |-> [f \in CredentialFields |-> "absent"]]

IdleOps ==
    /\ files = [i \in 1..Candidates |-> "missing"]
    /\ app_infra = NotLoaded
    /\ call_last = NoCallYet

\* the process starts with some state of the three candidate files, nothing loaded
InitConfig ==
    /\ files \in [1..Candidates -> FileStates]
    /\ app_infra = NotLoaded
    /\ call_last = NoCallYet
    /\ op = NoOperator
    /\ pool = <<>>
    /\ out = {}
    /\ opened = {}
    /\ closed = {}
    /\ conn_last = NoStep

\* load_app_infra()
LoadAppInfra ==
    /\ app_infra.status = "unloaded"
    /\ \E database \in DatabaseTags : app_infra' = load_app_infra(files, database)
    /\ UNCHANGED <<files, call_last, poolVars, retryVars, store, memoVars>>

\* get_database_operator(app_infra) with the credential sources and the driver
\* modules in some state
GetDatabaseOperator ==
    /\ app_infra.status = "returned"
    /\ op = NoOperator
    /\ call_last.step = "none"
    /\ \E creds \in CredentialStates, im \in ImportStates, project_id \in BOOLEAN :
          LET made == get_database_operator(app_infra.database, creds, im.importable,
                                            im.has_pytds, project_id)
          IN  /\ op' = IF made.status = "returned"
                       THEN [class |-> made.class, via |-> "factory",
                             configured |-> made.class # "NoDatabaseOperator"]
                       ELSE op
              /\ call_last' = [NoCallYet EXCEPT
                                 !.step = "factory",
                                 !.database = app_infra.database,
                                 !.creds = creds,
                                 !.importable = im.importable,
                                 !.has_pytds = im.has_pytds,
                                 !.project_id = project_id,
                                 !.status = made.status,
                                 !.class = made.class,
                                 !.error = made.error]
    /\ UNCHANGED <<files, app_infra, pool, out, opened, closed, conn_last,
                   retryVars, store, memoVars>>

(***************************************************************************)
(* The operators.  create_connection of each class, split at its yield:    *)
(* `enter` is the code before the yield, `leave` the code after it.        *)
(* `script[k]` is what the driver's connect does on its k-th invocation,   *)
(* `auth` whether the credentials needed at connection time are there      *)
(* (Snowflake: a private key or a password; BigQuery: GoogleCredentialsBQ()*)
(* can be built again from the environment).                               *)
(***************************************************************************)
OperatorClasses ==
    {"NoDatabaseOperator", "SnowflakeOperator", "BigQueryOperator",
     "SAPDatasphereOperator", "SQLServerOperator", "SQLServerOperatorPytds"}

Entered(conn, p, connected) ==
    [status |-> "yielded", conn |-> conn, pool |-> p, error |-> None, connected |-> connected]

NotEntered(p, error) ==
    [status |-> "raised", conn |-> 0, pool |-> p, error |-> error, connected |-> FALSE]

\* NoDatabaseOperator.create_connection: `yield None`
NoDatabase_create_connection(p) == Entered(0, p, FALSE)

SnowflakeOperator_create_connection(configured, p, script, auth, fresh) ==
    IF ~configured \/ ~auth THEN NotEntered(p, "ValueError")
    ELSE IF script[1] # "ok" THEN NotEntered(p, script[1])
    ELSE Entered(fresh, p, TRUE)

\* no is_configured() test: the credentials are resolved again and the client built
BigQueryOperator_create_connection(p, script, auth, fresh) ==
    IF ~auth THEN NotEntered(p, "ValidationError")
    ELSE IF script[1] # "ok" THEN NotEntered(p, script[1])
    ELSE Entered(fresh, p, TRUE)

SAPDatasphereOperator_create_connection(configured, p, script, fresh) ==
    IF ~configured THEN NotEntered(p, "ValueError")
    \* dbapi.connect raised: `finally: connection.close()` finds no `connection`
    ELSE IF script[1] # "ok" THEN NotEntered(p, "UnboundLocalError")
    ELSE Entered(fresh, p, TRUE)

\* the pooled operator
SQLServerOperator_create_connection(configured, p, deadset, script, fresh) ==
    IF ~configured THEN NotEntered(p, "ValueError")
    ELSE LET r == create_connection_enter(
                      p, deadset, wrapper(create_new_connection_retry(script)), fresh)
         IN  IF r.conn # 0
             THEN Entered(r.conn, r.pool, r.source = "new")
             ELSE NotEntered(r.pool, r.error)

SQLServerOperatorPytds_create_connection(configured, p, script, fresh) ==
    IF ~configured THEN NotEntered(p, "ValueError")
    ELSE IF script[1] # "ok" THEN NotEntered(p, script[1])
    ELSE Entered(fresh, p, TRUE)

enter(class, configured, p, deadset, script, auth, fresh) ==
    IF class = "NoDatabaseOperator" THEN NoDatabase_create_connection(p)
    ELSE IF class = "SnowflakeOperator"
    THEN SnowflakeOperator_create_connection(configured, p, script, auth, fresh)
    ELSE IF class = "BigQueryOperator"
    THEN BigQueryOperator_create_connection(p, script, auth, fresh)
    ELSE IF class = "SAPDatasphereOperator"
    THEN SAPDatasphereOperator_create_connection(configured, p, script, fresh)
    ELSE IF class = "SQLServerOperator"
    THEN SQLServerOperator_create_connection(configured, p, deadset, script, fresh)
    ELSE SQLServerOperatorPytds_create_connection(configured, p, script, fresh)

Left(fate, p) == [fate |-> fate, pool |-> p]

\* `yield connection` then `connection.close()`, with no try/finally around the yield
close_after_yield(p, body_raised) == Left(IF body_raised THEN "leaked" ELSE "closed", p)

\* `try: yield connection ... finally: connection.close()`
close_in_finally(p, body_raised) == Left("closed", p)

\* `finally: self._return_connection_to_pool(conn)`: pooled, or dropped unclosed
return_in_finally(p, conn, healthy) ==
    LET q == return_connection_to_pool(p, conn, IF healthy THEN {} ELSE {conn})
    IN  Left(IF Len(q) > Len(p) THEN "pooled" ELSE "leaked", q)

\* the code after the yield: what becomes of the connection when the scope's body
\* returned or raised
leave(class, p, conn, body_raised, healthy) ==
    IF class = "NoDatabaseOperator" THEN Left("none", p)
    ELSE IF class = "SnowflakeOperator" THEN close_after_yield(p, body_raised)
    ELSE IF class = "BigQueryOperator" THEN close_after_yield(p, body_raised)
    ELSE IF class = "SQLServerOperator" THEN return_in_finally(p, conn, healthy)
    ELSE close_in_finally(p, body_raised)

\* the connection pytds.connect returns next: the smallest one not cached
NextFree(p) == CHOOSE c \in Conns : c \notin SeqToSet(p) /\ \A d \in 1..(c - 1) : d \in SeqToSet(p)

\* what the server and the network do during one create_connection scope
ScopeEnvs ==
    [script : ConnectScripts, auth : BOOLEAN, healthy : BOOLEAN, broken : 0..1]

\* the environments that differ in something the class reads: only Snowflake and
\* BigQuery look for authentication material at connection time, only the pooled
\* operator probes connections, and only it calls connect more than once
ScopeEnvsOf(class, p) ==
    {env \in ScopeEnvs :
        /\ env.broken <= Len(p)
        /\ class \notin {"SnowflakeOperator", "BigQueryOperator"} => env.auth
        /\ class # "SQLServerOperator" =>
              /\ env.healthy /\ env.broken = 0
              /\ \A i \in 2..MaxAttempts : env.script[i] = "ok"
        /\ class = "NoDatabaseOperator" => env.script[1] = "ok"}

\* the cached connections that fail their probe: the `broken` ones on top
BrokenOnTop(p, n) == {p[i] : i \in (Len(p) - n + 1)..Len(p)}

\* the call ended with a retry budget used up
budget_exhausted(c) ==
    /\ c.step = "execute_query"
    /\ \/ c.connects = 3 /\ ~c.yielded
       \/ c.submissions = 2 /\ c.status = "raised"

\* an operator exists and no call on it is in progress
Ready ==
    /\ op # NoOperator
    /\ call_last.step \in {"factory", "construct", "done"}

\* the caller has taken the result (or the exception) of the last call
Return ==
    /\ call_last.step \in {"scope", "execute_query", "get_tables", "get_data"}
    /\ call_last' = [NoCallYet EXCEPT !.step = "done", !.class = op.class,
                                      !.prior = budget_exhausted(call_last)]
    /\ UNCHANGED <<files, app_infra, poolVars, retryVars, store, memoVars>>

\* Operator(credentials) called directly
Construct ==
    /\ op = NoOperator
    /\ call_last.step = "none"
    /\ \E class \in OperatorClasses, configured \in BOOLEAN, has_pytds \in BOOLEAN,
          project_id \in BOOLEAN :
          LET made == operator_init(class, configured, has_pytds, project_id)
          IN  /\ op' = IF made.status = "returned"
                       THEN [class |-> class, via |-> "direct", configured |-> configured]
                       ELSE op
              /\ call_last' = [NoCallYet EXCEPT
                                 !.step = "construct",
                                 !.configured = configured,
                                 !.has_pytds = has_pytds,
                                 !.project_id = project_id,
                                 !.status = made.status,
                                 !.class = class,
                                 !.error = made.error]
    /\ UNCHANGED <<files, app_infra, pool, out, opened, closed, conn_last,
                   retryVars, store, memoVars>>

\* what the environment variables and secret stores hold when a connection is opened:
\* the values the operator's credential set was built from, or others since
SecretSources == {"constructed", "rotated"}

\* the credentials a new connection is opened with: self._credentials, except that
\* BigQueryOperator.create_connection builds GoogleCredentialsBQ() again
connection_params(class, environment) ==
    IF class = "BigQueryOperator" THEN environment ELSE "constructed"

\* `with op.create_connection() as conn: body`, the body returning or raising
Scope ==
    /\ Ready
    /\ \E env \in ScopeEnvsOf(op.class, pool), body \in {"ok", "RuntimeError"},
          environment \in SecretSources :
          LET e == enter(op.class, op.configured, pool, BrokenOnTop(pool, env.broken),
                         env.script, env.auth, NextFree(pool))
              l == leave(op.class, e.pool, e.conn, body # "ok", env.healthy)
          IN  /\ env.broken <= Len(pool)
              /\ pool' = IF e.status = "yielded" THEN l.pool ELSE e.pool
              /\ call_last' = [NoCallYet EXCEPT
                                 !.step = "scope",
                                 !.class = op.class,
                                 !.body = body,
                                 !.script = env.script,
                                 !.yielded = e.status = "yielded",
                                 !.connected = e.connected,
                                 !.params = IF e.connected
                                            THEN connection_params(op.class, environment)
                                            ELSE None,
                                 !.released = IF e.status = "yielded" THEN l.fate ELSE "none",
                                 !.status = IF e.status = "yielded" /\ body = "ok"
                                            THEN "returned" ELSE "raised",
                                 !.error = IF e.status = "raised" THEN e.error
                                           ELSE IF body # "ok" THEN body ELSE None]
    /\ UNCHANGED <<files, app_infra, op, out, opened, closed, conn_last,
                   retryVars, store, memoVars>>

(***************************************************************************)
(* execute_query.  What the backend does with one submission of the query: *)
(* it answers ("ok"), it rejects the statement with a SQL error, which the  *)
(* driver raises as ProgrammingError or, for most server messages of       *)
(* pytds, as OperationalError, or the connection fails (OperationalError). *)
(* The query text is "query".                                              *)
(***************************************************************************)
\* what one submission does: it returns rows, the backend rejects the statement
\* (sql:), the session breaks (net:), or the rows come back and reading or
\* converting them raises (convert:)
QueryOutcomes == {"ok", "sql:ProgrammingError", "sql:OperationalError", "net:OperationalError",
                  "convert:TypeError"}

\* the exception class raised for an outcome
exception_type(outcome) ==
    IF outcome = "sql:ProgrammingError" THEN "ProgrammingError"
    ELSE IF outcome = "convert:TypeError" THEN "TypeError"
    ELSE "OperationalError"

\* the backend rejected the statement itself
is_sql_error(outcome) == outcome \in {"sql:ProgrammingError", "sql:OperationalError"}

\* what the successive submissions of one query do; a submission is looked at only
\* if every earlier one raised OperationalError, and at most two are made
QueryScripts ==
    {s \in [1..MaxAttempts -> QueryOutcomes] :
        \A i \in 1..MaxAttempts :
            (i > 2 \/ \E j \in 1..(i - 1) : exception_type(s[j]) # "OperationalError"
                                              \/ s[j] = "ok") => s[i] = "ok"}

\* the scripts that differ in a submission the class makes: only the SQL Server
\* operators submit a query a second time
QueryScriptsOf(class) ==
    {s \in QueryScripts :
        /\ class \notin {"SQLServerOperator", "SQLServerOperatorPytds"} => s[2] = "ok"
        /\ class = "NoDatabaseOperator" => s[1] = "ok"}

\* InvalidGeneratedCode(message, code=..., exception=...) [from cause]
InvalidGeneratedCode(code, exception, cause) ==
    [type |-> "InvalidGeneratedCode", code |-> code, exception |-> exception, cause |-> cause]

\* an exception raised by the driver or by create_connection
Original(type) == [type |-> type, origin |-> "original"]

\* an InvalidGeneratedCode raised further in
Wrapper == [type |-> "InvalidGeneratedCode", origin |-> "wrapper"]

\* what leaves the body of `with self.create_connection()`: nothing, a driver
\* exception (exc) or an InvalidGeneratedCode raised inside (igc)
BodyResult(submissions, exc, igc) == [submissions |-> submissions, exc |-> exc, igc |-> igc]

\* the decorated SQLServerOperator._execute_query_with_retry
execute_query_with_retry(sql) ==
    [script |-> [i \in 1..MaxAttempts |->
                    IF sql[i] = "ok" THEN "ok" ELSE exception_type(sql[i])],
     max_attempts |-> 2, initial_delay |-> 1, backoff_factor |-> 2,
     transient |-> transient_errors(TRUE)]

SnowflakeOperator_body(sql) ==
    IF sql[1] = "ok" THEN BodyResult(1, None, NoError)
    ELSE IF exception_type(sql[1]) = "ProgrammingError"
    THEN BodyResult(1, None, InvalidGeneratedCode("query", NoCause, NoCause))
    ELSE BodyResult(1, exception_type(sql[1]), NoError)

BigQueryOperator_body(sql) ==
    IF sql[1] = "ok" THEN BodyResult(1, None, NoError)
    ELSE BodyResult(1, exception_type(sql[1]), NoError)

SAPDatasphereOperator_body(sql) ==
    IF sql[1] = "ok" THEN BodyResult(1, None, NoError)
    ELSE BodyResult(1, None, InvalidGeneratedCode("query", NoCause, NoCause))

SQLServerOperator_body(sql) ==
    LET r == wrapper(execute_query_with_retry(sql))
    IN  IF r.status = "returned" THEN BodyResult(Calls(r), None, NoError)
        ELSE IF r.error.type = "TypeError"
        THEN \* not a pytds.Error: passes the inner handler
             BodyResult(Calls(r), r.error.type, NoError)
        ELSE BodyResult(Calls(r), None,
                        InvalidGeneratedCode("query", Original(r.error.type), NoCause))

SQLServerOperatorPytds_body(sql) ==
    LET r == wrapper(execute_query_with_retry(sql))
    IN  IF r.status = "returned" THEN BodyResult(Calls(r), None, NoError)
        ELSE BodyResult(Calls(r), r.error.type, NoError)

query_body(class, sql) ==
    IF class = "SnowflakeOperator" THEN SnowflakeOperator_body(sql)
    ELSE IF class = "BigQueryOperator" THEN BigQueryOperator_body(sql)
    ELSE IF class = "SAPDatasphereOperator" THEN SAPDatasphereOperator_body(sql)
    ELSE IF class = "SQLServerOperator" THEN SQLServerOperator_body(sql)
    ELSE SQLServerOperatorPytds_body(sql)

\* no handler around the `with` block: what leaves the body reaches the caller
outer_handlers_absent(class, exc, igc) ==
    IF exc = None /\ igc = NoError THEN NoError
    ELSE IF igc # NoError THEN igc
    ELSE [type |-> exc, code |-> None, exception |-> NoCause, cause |-> NoCause]

\* the handlers around the `with` block: exc and igc are what reached them
outer_handlers(class, exc, igc) ==
    IF exc = None /\ igc = NoError THEN NoError
    ELSE IF class = "SQLServerOperator"
    THEN \* `except InvalidGeneratedCode: raise`, then `except Exception as e`
         IF igc # NoError THEN igc
         ELSE InvalidGeneratedCode("query", Original(exc), NoCause)
    ELSE IF class = "SQLServerOperatorPytds"
    THEN \* `raise InvalidGeneratedCode(message) from e`
         InvalidGeneratedCode(None, NoCause, Original(exc))
    ELSE \* `except Exception as e: raise InvalidGeneratedCode(..., code=query, exception=e)`
         IF igc # NoError THEN InvalidGeneratedCode("query", Wrapper, NoCause)
         ELSE InvalidGeneratedCode("query", Original(exc), NoCause)

\* the retried _create_new_connection of the pooled operator, when create_connection
\* reaches it: the pool gave nothing
connect_retry(class, configured, p, deadset, script) ==
    IF class = "SQLServerOperator" /\ configured
         /\ get_connection_from_pool(p, deadset, {}).conn = 0
    THEN wrapper(create_new_connection_retry(script))
    ELSE NotCalled

\* the retried _execute_query_with_retry of the two SQL Server operators
query_retry(class, yielded, sql) ==
    IF class \in {"SQLServerOperator", "SQLServerOperatorPytds"} /\ yielded
    THEN wrapper(execute_query_with_retry(sql))
    ELSE NotCalled

default_timeout == 300

connection_timeout == 30

\* the timeout argument of a call: 0 stands for None
Timeouts == {0, 60}

\* `timeout if timeout is not None else self.default_timeout`
effective_timeout(timeout) == IF timeout = 0 THEN default_timeout ELSE timeout

\* the timeout the query runs under, 0 for none: Snowflake sets it on the session,
\* BigQuery passes it to the client; SAP and SQLServerOperator compute it and leave
\* it unused; SQLServerOperatorPytds runs under the timeout of its connection
timeout_in_force(class, timeout) ==
    IF class \in {"SnowflakeOperator", "BigQueryOperator"} THEN effective_timeout(timeout)
    ELSE IF class = "SQLServerOperatorPytds" THEN connection_timeout
    ELSE 0

\* operator.execute_query(query)
ExecuteQuery ==
    /\ Ready
    /\ \E env \in ScopeEnvsOf(op.class, pool), sql \in QueryScriptsOf(op.class),
          timeout \in Timeouts :
          /\ env.broken <= Len(pool)
          /\ IF op.class = "NoDatabaseOperator"
             THEN /\ pool' = pool
                  /\ call_last' = [NoCallYet EXCEPT
                                     !.step = "execute_query",
                                     !.class = op.class,
                                     !.status = "returned"]
             ELSE LET e == enter(op.class, op.configured, pool,
                                 BrokenOnTop(pool, env.broken),
                                 env.script, env.auth, NextFree(pool))
                      yielded == e.status = "yielded"
                      b == IF yielded THEN query_body(op.class, sql)
                           ELSE BodyResult(0, e.error, NoError)
                      l == leave(op.class, e.pool, e.conn,
                                 b.exc # None \/ b.igc # NoError, env.healthy)
                      raised == outer_handlers(op.class, b.exc, b.igc)
                      cr == connect_retry(op.class, op.configured, pool,
                                          BrokenOnTop(pool, env.broken), env.script)
                      qr == query_retry(op.class, yielded, sql)
                  IN  /\ pool' = IF yielded THEN l.pool ELSE e.pool
                      /\ call_last' = [NoCallYet EXCEPT
                                         !.step = "execute_query",
                                         !.class = op.class,
                                         !.yielded = yielded,
                                         !.connected = e.connected,
                                         !.released = IF yielded THEN l.fate ELSE "none",
                                         !.status = IF raised = NoError
                                                    THEN "returned" ELSE "raised",
                                         !.result = IF raised = NoError
                                                    THEN <<"row">> ELSE <<>>,
                                         !.submissions = b.submissions,
                                         !.rejected = yielded /\ is_sql_error(sql[1]),
                                         !.raised = raised,
                                         !.script = env.script,
                                         !.sql = sql,
                                         !.connects = Calls(cr),
                                         !.connect_sleeps = Delays(cr),
                                         !.query_sleeps = Delays(qr),
                                         !.prior = call_last.prior,
                                         !.timeout = timeout,
                                         !.in_force = IF yielded
                                                      THEN timeout_in_force(op.class, timeout)
                                                      ELSE 0]
    /\ UNCHANGED <<files, app_infra, op, out, opened, closed, conn_last,
                   retryVars, store, memoVars>>

(***************************************************************************)
(* get_tables.  The configured schema holds each of the names a, b as a    *)
(* base table, as a view, or not at all; `catalog` is what the operator's  *)
(* listing of it returns.                                                  *)
(***************************************************************************)
Schemas == [{"a", "b"} -> {"absent", "BASE TABLE", "VIEW"}]

\* the names of the given types, in alphabetical order (ORDER BY name)
by_name(schema, types) == SelectSeq(<<"a", "b">>, LAMBDA t : schema[t] \in types)

\* the listing each class asks for.  Snowflake: ORDER BY table_type, table_name; SAP:
\* SYS.TABLES then SYS.VIEWS, each by name; SQLServerOperator: both types, ORDER BY
\* TABLE_NAME; SQLServerOperatorPytds: TABLE_TYPE = 'BASE TABLE' only; BigQuery:
\* client.list_tables, in the order the API pages them (`descending`: not by name)
listing(class, schema, descending) ==
    IF class \in {"SnowflakeOperator", "SAPDatasphereOperator"}
    THEN by_name(schema, {"BASE TABLE"}) \o by_name(schema, {"VIEW"})
    ELSE IF class = "SQLServerOperator" THEN by_name(schema, {"BASE TABLE", "VIEW"})
    ELSE IF class = "SQLServerOperatorPytds" THEN by_name(schema, {"BASE TABLE"})
    ELSE LET all == by_name(schema, {"BASE TABLE", "VIEW"})
         IN  IF descending THEN [k \in 1..Len(all) |-> all[Len(all) + 1 - k]] ELSE all

\* catches the database driver's errors only
except_driver_errors(error) ==
    error \in {"OperationalError", "ProgrammingError", "InterfaceError"}

\* `except Exception`: every error create_connection, the driver or execute_query raises
except_Exception(error) == error \notin {"KeyboardInterrupt", "SystemExit"}

\* the statements SnowflakeOperator.get_tables runs around its listing query, all in
\* the same try block: ALTER SESSION and the session info, the schema-exists check,
\* and SHOW GRANTS after the listing; `failing` is the one that raises, if any
Diagnostics == {"none", "session", "schema_check", "grants"}

\* the error that reaches the handler of get_tables, if any: create_connection's, or
\* that of the listing query (run through execute_query by SQLServerOperatorPytds)
listing_error(class, e, sql, failing) ==
    IF e.status = "raised"
    THEN IF class = "SQLServerOperatorPytds" THEN "InvalidGeneratedCode" ELSE e.error
    ELSE IF class = "SnowflakeOperator" /\ failing \in {"session", "schema_check"}
    THEN "ProgrammingError"          \* raised before the listing query is sent
    ELSE IF class = "SnowflakeOperator" /\ sql[1] = "ok" /\ failing = "grants"
    THEN "ProgrammingError"          \* raised after the listing was read
    ELSE IF class = "SQLServerOperatorPytds"
    THEN IF outer_handlers(class, query_body(class, sql).exc, query_body(class, sql).igc)
              = NoError
         THEN None ELSE "InvalidGeneratedCode"
    ELSE IF sql[1] = "ok" THEN None ELSE exception_type(sql[1])

get_tables(class, e, sql, catalog, failing) ==
    IF class = "NoDatabaseOperator"
    THEN [status |-> "returned", result |-> <<>>, error |-> None]
    ELSE LET error == listing_error(class, e, sql, failing)
         IN  IF error = None
             THEN [status |-> "returned", result |-> catalog, error |-> None]
             ELSE IF except_Exception(error)
             THEN [status |-> "returned", result |-> <<>>, error |-> error]
             ELSE [status |-> "raised", result |-> <<>>, error |-> error]

\* operator.get_tables()
GetTables ==
    /\ Ready
    /\ \E env \in ScopeEnvsOf(op.class, pool), sql \in QueryScriptsOf(op.class),
          schema \in Schemas,
          descending \in (IF op.class = "BigQueryOperator" THEN BOOLEAN ELSE {FALSE}),
          failing \in (IF op.class = "SnowflakeOperator" THEN Diagnostics ELSE {"none"}) :
          LET e == enter(op.class, op.configured, pool, BrokenOnTop(pool, env.broken),
                         env.script, env.auth, NextFree(pool))
              yielded == e.status = "yielded" /\ op.class # "NoDatabaseOperator"
              r == get_tables(op.class, e, sql, listing(op.class, schema, descending),
                              failing)
              l == leave(op.class, e.pool, e.conn, r.error # None, env.healthy)
          IN  /\ env.broken <= Len(pool)
              /\ pool' = IF yielded THEN l.pool ELSE e.pool
              /\ call_last' = [NoCallYet EXCEPT
                                 !.step = "get_tables",
                                 !.class = op.class,
                                 !.schema = schema,
                                 !.sql = sql,
                                 !.failing = failing,
                                 !.yielded = yielded,
                                 !.connected = e.connected,
                                 !.released = IF yielded THEN l.fate ELSE "none",
                                 !.status = r.status,
                                 !.result = r.result,
                                 !.error = r.error]
    /\ UNCHANGED <<files, app_infra, op, out, opened, closed, conn_last,
                   retryVars, store, memoVars>>

(***************************************************************************)
(* get_data, table by table.  A table of the backend either cannot be read *)
(* (its query raises) or holds `rows` rows of one column whose values are  *)
(* text or integers.  The backend executes the row limit of the query      *)
(* (TOP n, LIMIT n, SAMPLE (n ROWS)).                                      *)
(***************************************************************************)
MaxRows == 2                \* rows a table holds at most

MaxSample == 2              \* largest sample_size

SampleSizes == 1..MaxSample

CellTypes == {"text", "int"}

Unreadable == [fetch |-> "error", rows |-> 0, cells |-> "text"]

TableStates ==
    {Unreadable} \cup [fetch : {"ok"}, rows : 0..MaxRows, cells : CellTypes]

Requests == MemoTuples \cup {<<>>, <<"b", "a">>, <<"a", "a">>}

Min(a, b) == IF a <= b THEN a ELSE b

Dataset(name, rows, cells) == [name |-> name, rows |-> rows, cells |-> cells]

\* str(val) / dtype=str / schema={col: pl.String}: every value becomes text
to_string(cells) == "text"

\* pl.DataFrame(results).to_pandas(): the values keep the driver's types
keep_native(cells) == cells

\* the datasets one table contributes: one, or none when the table is skipped
load_table(class, t, st, n) ==
    IF st.fetch = "error" THEN {}
    ELSE LET returned == Min(st.rows, n)          \* the backend applies the limit
         IN  IF class = "SQLServerOperatorPytds"
             THEN IF returned = 0 THEN {}         \* `if df.is_empty(): continue`
                  ELSE {Dataset(t, returned, keep_native(st.cells))}
             ELSE IF class = "SQLServerOperator"
             THEN {Dataset(t, Min(returned, n), to_string(st.cells))}   \* rows[:sample_size]
             ELSE {Dataset(t, returned, to_string(st.cells))}

NoData == [names |-> <<>>, registered |-> <<>>, datasets |-> {}, raised |-> FALSE]

\* the registration loop that follows the fetch loop in the four classes that build
\* all datasets first: it stops at the first register_dataset that raises, and the
\* handler around the whole body then returns []
register_batch(built, rejects) ==
    LET failing == {k \in 1..Len(built) : built[k] \in rejects}
        done == IF failing = {} THEN built
                ELSE SubSeq(built, 1, (CHOOSE k \in failing : \A j \in failing : k <= j) - 1)
    IN  [names |-> IF failing = {} THEN built ELSE <<>>,
         registered |-> done,
         raised |-> failing # {}]

\* SQLServerOperatorPytds registers each dataset inside its table's own try block: a
\* register_dataset that raises skips that table only
register_each(built, rejects) ==
    LET done == SelectSeq(built, LAMBDA t : t \notin rejects)
    IN  [names |-> done, registered |-> done, raised |-> FALSE]

\* the tables are read in request order; `rejects` are the names for which
\* analyst_db.register_dataset raises
get_data(class, entered, request, db, n, rejects) ==
    IF class = "NoDatabaseOperator" \/ ~entered THEN NoData
    ELSE LET built == SelectSeq(request, LAMBDA t : load_table(class, t, db[t], n) # {})
             r == IF class = "SQLServerOperatorPytds"
                  THEN register_each(built, rejects)
                  ELSE register_batch(built, rejects)
         IN  [names |-> r.names,
              registered |-> r.registered,
              datasets |-> UNION {load_table(class, t, db[t], n) :
                                     t \in SeqToSet(r.registered)},
              raised |-> r.raised]

\* create_connection is entered by get_data: not by NoDatabaseOperator, and not by
\* SQLServerOperatorPytds when no table is requested
connects(class, request) ==
    /\ class # "NoDatabaseOperator"
    /\ ~(class = "SQLServerOperatorPytds" /\ request = <<>>)

\* pytds.connect succeeds at once, or fails on every attempt
ConnectUp == [i \in 1..MaxAttempts |-> "ok"]

ConnectDown == [i \in 1..MaxAttempts |-> IF i <= 3 THEN "OperationalError" ELSE "ok"]

\* the states of the backend's tables that differ in a table the call reads
BackendsOf(request) ==
    {db \in [Tables -> TableStates] :
        \A t \in Tables \ SeqToSet(request) : db[t] = Unreadable}

\* await operator.get_data(*request, analyst_db=..., sample_size=n)
GetDataCall ==
    /\ Ready
    /\ \E request \in Requests, n \in SampleSizes,
          script \in {ConnectUp, ConnectDown} :
       \E db \in BackendsOf(request), rejects \in SUBSET SeqToSet(request) :
          LET e == IF connects(op.class, request)
                   THEN enter(op.class, op.configured, pool, {}, script, TRUE,
                              NextFree(pool))
                   ELSE NotEntered(pool, None)
              yielded == e.status = "yielded"
              r == get_data(op.class, yielded, request, db, n, rejects)
              l == leave(op.class, e.pool, e.conn, r.raised, TRUE)
          IN  /\ pool' = IF yielded THEN l.pool ELSE e.pool
              /\ call_last' = [NoCallYet EXCEPT
                                 !.step = "get_data",
                                 !.class = op.class,
                                 !.yielded = yielded,
                                 !.connected = e.connected,
                                 !.released = IF yielded THEN l.fate ELSE "none",
                                 !.status = "returned",
                                 !.request = request,
                                 !.sample_size = n,
                                 !.result = r.names,
                                 !.datasets = r.datasets,
                                 !.registered = r.registered,
                                 !.reg_failed = yielded /\ \E k \in 1..Len(request) :
                                     /\ request[k] \in rejects
                                     /\ load_table(op.class, request[k], db[request[k]], n) # {},
                                 !.fetched = IF yielded
                                             THEN SelectSeq(request,
                                                      LAMBDA t : db[t].fetch = "ok")
                                             ELSE <<>>]
    /\ UNCHANGED <<files, app_infra, op, out, opened, closed, conn_last,
                   retryVars, store, memoVars>>

(***************************************************************************)
(* PersistentStorage (src/utils/persistent_storage.py).  A key/value link  *)
(* named f"{user_id}_{file_name}" holds, as JSON, the catalog id of the    *)
(* file uploaded last and the time of that upload.  Strings are sequences  *)
(* of characters, so that the prefix arithmetic of the names is computed.  *)
(* Catalog files are numbered in the order they are uploaded; the clock is *)
(* read just before the upload, and the n-th upload reads time n.          *)
(***************************************************************************)
MaxUploads == 3             \* File.from_file calls in one run

Users == {<<"u">>, <<"u", "_", "v">>}

FileNames == {<<"f">>, <<"v", "_", "f">>}

\* self.name_prefix = f"{user_id}_"
name_prefix(user) == user \o <<"_">>

\* f"{self.name_prefix}{file_name}"
storing_label(user, name) == name_prefix(user) \o name

\* str.startswith
startswith(str, prefix) ==
    Len(prefix) <= Len(str) /\ SubSeq(str, 1, Len(prefix)) = prefix

\* str.removeprefix
removeprefix(str, prefix) ==
    IF startswith(str, prefix) THEN SubSeq(str, Len(prefix) + 1, Len(str)) ELSE str

\* PersistentStorage(user).files(): the names under the prefix, with the prefix removed
PersistentStorage_files(user, links) ==
    {removeprefix(l.name, name_prefix(user)) :
        l \in {k \in links : startswith(k.name, name_prefix(user))}}

NoLink == [id |-> 0, name |-> <<>>, catalogId |-> 0, timestamp |-> 0]

\* finds no link, whatever is stored
find_nothing(links, name) == NoLink

\* KeyValue.find: the link of that name, the oldest when several carry it
find(links, name) ==
    IF \E l \in links : l.name = name
    THEN CHOOSE l \in links : l.name = name /\ \A k \in links : k.name = name => l.id <= k.id
    ELSE NoLink

\* File.delete(catalog_id) in `st`; deleting a file that is gone still counts
File_delete(st, id) ==
    [st EXCEPT !.catalog = @ \ {id}, !.deletions[id] = @ + 1]

\* deletes the catalog file and leaves the link in place
delete_file_keeps_link(st, user, name) ==
    LET storage_link == find(st.links, storing_label(user, name))
    IN  IF storage_link = NoLink THEN st ELSE File_delete(st, storage_link.catalogId)

\* delete_file: `if not storage_link: return`, then File.delete and storage_link.delete()
delete_file(st, user, name) ==
    LET storage_link == find(st.links, storing_label(user, name))
    IN  IF storage_link = NoLink THEN st
        ELSE [File_delete(st, storage_link.catalogId) EXCEPT
                 !.links = {l \in @ : l.id # storage_link.id}]

NoOperation ==
    [op |-> "none", user |-> <<>>, name |-> <<>>, id |-> 0, error |-> None,
     prev |-> NoLink, before |-> {}, links |-> {}, catalog |-> {},
     overlapped |-> FALSE, prior |-> "none", prior_before |-> {}, prior_prev |-> NoLink]

\* what a completed call leaves in store.last: `prev` is the link it found, `before`
\* the user's listing, `links` and `catalog` the store, all at the start of the call;
\* prior* describe the call completed just before, when it was a save of the same file
Completed(call, user, name, id, error, prev, before, links, catalog, overlapped) ==
    LET same == store.last.op = "save" /\ store.last.user = user /\ store.last.name = name
    IN  [op |-> call, user |-> user, name |-> name, id |-> id, error |-> error,
         prev |-> prev, before |-> before, links |-> links, catalog |-> catalog,
         overlapped |-> overlapped,
         prior |-> IF same THEN "save" ELSE "other",
         prior_before |-> IF same THEN store.last.before ELSE {},
         prior_prev |-> IF same THEN store.last.prev ELSE NoLink]

\* an application with nothing stored
IdleStore ==
    store = [links |-> {}, catalog |-> {}, uploads |-> <<>>,
             deletions |-> [i \in 1..(MaxUploads + 1) |-> 0],
             calls |-> {}, last |-> NoOperation]

\* save_to_storage up to File.from_file: the clock is read and the file uploaded
BeginSave(user, name, savers) ==
    /\ Len(store.uploads) < MaxUploads
    /\ Cardinality(store.calls) < savers
    /\ LET id == Len(store.uploads) + 1
       IN  store' = [store EXCEPT
                        !.uploads = Append(@, [user |-> user, name |-> name]),
                        !.catalog = @ \cup {id},
                        !.calls = {[c EXCEPT !.overlapped = TRUE] : c \in @} \cup
                                  {[user |-> user, name |-> name, id |-> id, pc |-> "find",
                                    found |-> NoLink, before |-> PersistentStorage_files(user, store.links),
                                    links |-> store.links, catalog |-> store.catalog,
                                    overlapped |-> store.calls # {}]}]
    /\ UNCHANGED <<retryVars, poolVars, memoVars, opsVars>>

\* the next request of a save_to_storage call in flight: KeyValue.find, then
\* KeyValue.create, or storage_link.update and File.delete of the old file, or
\* File.delete of the file just uploaded.  Whether the server takes a second link
\* of a name that exists is its business: `duplicate` is what it does.
SaveStep(c, duplicate) ==
    LET label == storing_label(c.user, c.name)
        done(st, error) ==
            [st EXCEPT !.calls = @ \ {c},
                       !.last = Completed("save", c.user, c.name, c.id, error, c.found,
                                          c.before, c.links, c.catalog, c.overlapped)]
        goto(st, pc, found) ==
            [st EXCEPT !.calls = (@ \ {c}) \cup {[c EXCEPT !.pc = pc, !.found = found]}]
        new == [id |-> c.id, name |-> label, catalogId |-> c.id, timestamp |-> c.id]
    IN  /\ c \in store.calls
        /\ store' =
             CASE c.pc = "find" ->
                    LET storage_link == find(store.links, label)
                    IN  IF storage_link = NoLink THEN goto(store, "create", NoLink)
                        ELSE IF c.id > storage_link.timestamp
                        THEN goto(store, "update", storage_link)
                        ELSE goto(store, "drop", storage_link)
               [] c.pc = "create" ->
                    IF (\E l \in store.links : l.name = label) /\ duplicate = "rejected"
                    THEN done(store, "ClientError")
                    ELSE done([store EXCEPT !.links = @ \cup {new}], None)
               [] c.pc = "update" ->
                    goto([store EXCEPT !.links =
                             {l \in @ : l.id # c.found.id} \cup
                             {[new EXCEPT !.id = c.found.id]}],
                         "delete_old", c.found)
               [] c.pc = "delete_old" ->
                    done(File_delete(store, c.found.catalogId),
                         IF c.found.catalogId \in store.catalog THEN None ELSE "ClientError")
               [] c.pc = "drop" ->
                    done(File_delete(store, c.id), None)
        /\ UNCHANGED <<retryVars, poolVars, memoVars, opsVars>>

\* PersistentStorage(user).delete_file(name), run to its end
DeleteFile(user, name) ==
    /\ store.calls = {}
    /\ LET st == delete_file(store, user, name)
       IN  store' = [st EXCEPT !.last =
                        Completed("delete", user, name, 0, None,
                                  find(store.links, storing_label(user, name)),
                                  PersistentStorage_files(user, store.links), store.links,
                                  store.catalog, FALSE)]
    /\ UNCHANGED <<retryVars, poolVars, memoVars, opsVars>>

\* PersistentStorage(user).fetch_from_storage(name, path): File.file(catalogId, path)
\* writes the local file and leaves the store alone
FetchFromStorage(user, name) ==
    /\ store.calls = {}
    /\ LET storage_link == find(store.links, storing_label(user, name))
       IN  store' = [store EXCEPT !.last =
                        Completed("fetch", user, name, storage_link.catalogId, None,
                                  storage_link, PersistentStorage_files(user, store.links),
                                  store.links, store.catalog, FALSE)]
    /\ UNCHANGED <<retryVars, poolVars, memoVars, opsVars>>

\* PersistentStorage(user).PersistentStorage_files()
Files(user) ==
    /\ store.calls = {}
    /\ store.last.op # "files"
    /\ store' = [store EXCEPT !.last =
                    Completed("files", user, <<>>, 0, None, NoLink,
                              PersistentStorage_files(user, store.links), store.links,
                              store.catalog, FALSE)]
    /\ UNCHANGED <<retryVars, poolVars, memoVars, opsVars>>

(***************************************************************************)
(* The specifications.                                                     *)
(***************************************************************************)
NextRetry ==
    RetryCall /\ UNCHANGED poolVars /\ UNCHANGED memoVars /\ UNCHANGED opsVars
        /\ UNCHANGED store

\* the wrapped call is about to be made; no operator is in use
InitSpecRetry == InitRetry /\ IdlePool /\ IdleMemo /\ IdleOps /\ IdleStore

SpecRetry == InitSpecRetry /\ [][NextRetry]_vars

NextPool ==
    \/ AcquirePooled
    \/ \E c \in Conns, healthy \in BOOLEAN : ReleasePooled(c, healthy)
    \/ AcquirePytds
    \/ \E c \in Conns, healthy \in BOOLEAN : ReleasePytds(c, healthy)

\* a freshly constructed sqlserver operator
InitSpecPool == IdleRetry /\ InitPool /\ IdleMemo /\ IdleOps /\ IdleStore

SpecPool == InitSpecPool /\ [][NextPool]_vars

NextMemo ==
    /\ ncalls < MaxCalls
    /\ \E o \in MemoOperators, t \in MemoTuples, bad \in {{}, {"a"}} : GetData(o, t, bad)
    /\ UNCHANGED retryVars
    /\ UNCHANGED poolVars
    /\ UNCHANGED opsVars
    /\ UNCHANGED store

\* freshly constructed operators: empty caches, nothing requested yet
InitSpecMemo == IdleRetry /\ IdlePool /\ IdleMemo /\ IdleOps /\ IdleStore

SpecMemo == InitSpecMemo /\ [][NextMemo]_vars

NextLru ==
    /\ ncalls < MaxCalls
    /\ \E o \in LruOperators, t \in LruTuples :
          /\ IndexOf(LruKeys, [self |-> o.id, tables |-> t]) <= Len(recent) + 1
          /\ GetData(o, t, {})
    /\ UNCHANGED retryVars
    /\ UNCHANGED poolVars
    /\ UNCHANGED opsVars
    /\ UNCHANGED store

SpecLru == InitSpecMemo /\ [][NextLru]_vars

\* calls that overlap: a call may be issued while others are suspended
IssueGetData ==
    /\ ncalls < MaxOverlap
    /\ \E o \in MemoOperators, t \in MemoTuples : CallGetData(o, t)
    /\ UNCHANGED <<retryVars, store, poolVars, opsVars>>

FinishGetData ==
    /\ \E c \in awaiting : ResumeGetData(c)
    /\ UNCHANGED <<retryVars, store, poolVars, opsVars>>

NextAwait == IssueGetData \/ FinishGetData

SpecAwait == InitSpecMemo /\ [][NextAwait]_vars

\* PersistentStorage used by one caller at a time: a call ends before the next begins
NextStorage ==
    \/ \E user \in Users, name \in FileNames : BeginSave(user, name, 1)
    \/ \E c \in store.calls : SaveStep(c, "accepted")
    \/ \E user \in Users, name \in FileNames : DeleteFile(user, name)
    \/ \E user \in Users, name \in FileNames : FetchFromStorage(user, name)
    \/ \E user \in Users : Files(user)

InitSpecStorage == IdleRetry /\ IdlePool /\ IdleMemo /\ IdleOps /\ IdleStore

SpecStorage == InitSpecStorage /\ [][NextStorage]_vars

\* save_to_storage of one file of one user, with up to two calls in flight at a time
NextSavers ==
    \/ BeginSave(<<"u">>, <<"f">>, 2)
    \/ \E c \in store.calls, duplicate \in {"accepted", "rejected"} : SaveStep(c, duplicate)

SpecSavers == InitSpecStorage /\ [][NextSavers]_vars

NextConfig ==
    \/ LoadAppInfra
    \/ GetDatabaseOperator

\* process start: candidate files in some state, nothing loaded, no operator
InitSpecConfig == IdleRetry /\ InitConfig /\ IdleMemo /\ IdleStore

SpecConfig == InitSpecConfig /\ [][NextConfig]_vars

\* the configuration is loaded; an operator is built, by the factory or directly,
\* and then used
InitOperator ==
    /\ files = [i \in 1..Candidates |-> "valid"]
    /\ \E database \in DatabaseTags : app_infra = load_app_infra(files, database)
    /\ call_last = NoCallYet
    /\ op = NoOperator
    /\ pool = <<>>
    /\ out = {}
    /\ opened = {}
    /\ closed = {}
    /\ conn_last = NoStep

NextOperator ==
    \/ GetDatabaseOperator
    \/ Construct
    \/ Scope
    \/ ExecuteQuery
    \/ GetTables
    \/ GetDataCall
    \/ Return

InitSpecOperator == IdleRetry /\ InitOperator /\ IdleMemo /\ IdleStore

SpecOperator == InitSpecOperator /\ [][NextOperator]_vars

\* ---------------------------------------------------------------------------
\* is_configured applied to every credential set a variant can validate to
\* ---------------------------------------------------------------------------

IsConfigured ==
    /\ call_last.step = "none"
    /\ \E variant \in CredentialVariants : \E c \in CredentialSets(variant) :
          call_last' = [NoCallYet EXCEPT
                          !.step = "is_configured",
                          !.class = variant,
                          !.fields = c,
                          !.configured = is_configured(variant, c)]
    /\ UNCHANGED <<files, app_infra, op, pool, out, opened, closed, conn_last,
                   retryVars, store, memoVars>>

NextCredentials == IsConfigured

InitSpecCredentials == IdleRetry /\ InitOperator /\ IdleMemo /\ IdleStore

SpecCredentials == InitSpecCredentials /\ [][NextCredentials]_vars

(***************************************************************************)
(* Retry policy (SpecRetry).                                               *)
(***************************************************************************)

\* the first n invocations of the wrapped function all raise a transient error
AllTransient(r, n) ==
    \A i \in 1..n : r.script[i] # "ok" /\ r.script[i] \in r.transient

\* C1: a wrapped function that raises a transient error on every call is invoked
\* exactly max_attempts times (max_attempts >= 1), and the error raised to the
\* caller is the one its last invocation raised.
C1_ExhaustedRetriesRaiseLastError ==
    (/\ retry_out.status # "idle"
     /\ retry_in.max_attempts >= 1
     /\ AllTransient(retry_in, retry_in.max_attempts))
    => /\ retry_out.status = "raised"
       /\ Calls(retry_out) = retry_in.max_attempts
       /\ retry_out.error = [type |-> retry_in.script[retry_in.max_attempts],
                             call |-> retry_in.max_attempts]

\* three attempts, three transient errors of which the first and the last differ
C1_Witness ==
    /\ retry_out.status = "raised"
    /\ retry_in.max_attempts = 3
    /\ AllTransient(retry_in, 3)
    /\ retry_in.script[1] # retry_in.script[3]
    /\ Calls(retry_out) = 3
    /\ retry_out.error.call = 3

\* C2: a non-transient error raised by invocation k (after k-1 transient failures)
\* reaches the caller at once: k invocations in all, the k-th being the last event
\* (no sleep follows it), and the error raised is that invocation's.
C2_NonTransientErrorPropagatesAtOnce ==
    \A k \in 1..MaxAttempts :
        (/\ retry_out.status # "idle"
         /\ k <= retry_in.max_attempts
         /\ AllTransient(retry_in, k - 1)
         /\ retry_in.script[k] # "ok"
         /\ retry_in.script[k] \notin retry_in.transient)
        => /\ retry_out.status = "raised"
           /\ retry_out.error = [type |-> retry_in.script[k], call |-> k]
           /\ Calls(retry_out) = k
           /\ Len(Sleeps(retry_out)) = k - 1
           /\ retry_out.events[Len(retry_out.events)] = [ev |-> "call", n |-> k]

\* a non-transient error on the second attempt of three, after one transient failure
C2_Witness ==
    /\ retry_out.status = "raised"
    /\ retry_in.max_attempts = 3
    /\ AllTransient(retry_in, 1)
    /\ retry_in.script[2] = "ProgrammingError"
    /\ retry_in.script[2] \notin retry_in.transient
    /\ Calls(retry_out) = 2

RECURSIVE Pow(_, _)
Pow(b, e) == IF e = 0 THEN 1 ELSE b * Pow(b, e - 1)

\* C22: after the i-th transient failure with attempts remaining the wrapper sleeps
\* initial_delay * backoff_factor^(i-1) and then makes attempt i+1: exactly one sleep
\* lies between two consecutive attempts, and nothing follows the final failed
\* attempt or a success.
C22_OneBackoffSleepBetweenAttempts ==
    LET ev == retry_out.events
    IN  \A k \in 1..Len(ev) :
            /\ ev[k].ev = "call" =>
                  LET i == ev[k].n
                      retried == /\ retry_in.script[i] # "ok"
                                 /\ retry_in.script[i] \in retry_in.transient
                                 /\ i < retry_in.max_attempts
                  IN  IF retried
                      THEN /\ k + 2 <= Len(ev)
                           /\ ev[k + 1] = [ev |-> "sleep",
                                           n |-> retry_in.initial_delay
                                                   * Pow(retry_in.backoff_factor, i - 1)]
                           /\ ev[k + 2] = [ev |-> "call", n |-> i + 1]
                      ELSE k = Len(ev)
            /\ ev[k].ev = "sleep" => (k > 1 /\ k < Len(ev) /\ ev[k - 1].ev = "call")

\* C22 witness: three attempts, all failing with a transient error: two sleeps, the
\* second twice as long as the first, and none after the third failure.
C22_Witness ==
    /\ retry_out.status = "raised"
    /\ retry_in.max_attempts = 3
    /\ retry_in.initial_delay = 2
    /\ AllTransient(retry_in, 3)
    /\ Len(retry_out.events) = 5
    /\ retry_out.events[2].n = 2
    /\ retry_out.events[4].n = 4

(***************************************************************************)
(* Connection pool (SpecPool).                                             *)
(***************************************************************************)

Pooled == op.class = "SQLServerOperator"

\* C3: a connection whose session is broken when its scope releases it is not put
\* back in the pool by that release, and a connection that is neither in the pool
\* nor held by a scope is never pooled or yielded again: no later create_connection
\* yields the connection that failed its probe.
C3_FailedProbeNotPooled ==
    [][Pooled =>
          /\ (conn_last'.step = "release" /\ ~conn_last'.alive)
                => (conn_last'.conn \notin SeqToSet(pool') /\ conn_last'.conn \notin out')
          /\ \A c \in opened \ (SeqToSet(pool) \cup out) :
                c \notin SeqToSet(pool') /\ c \notin out']_vars

\* a connection failed its probe at release while the pool had cached entries and room
C3_Witness ==
    /\ Pooled
    /\ conn_last.step = "release"
    /\ ~conn_last.alive
    /\ conn_last.room
    /\ pool # <<>>
    /\ conn_last.conn \notin SeqToSet(pool)

\* C4: a connection yielded out of the pool was alive at that acquisition; the
\* cached connections popped before it are no longer in the pool and are held by
\* no scope.
C4_PooledConnectionProbedAtAcquire ==
    (Pooled /\ conn_last.step = "acquire")
    => /\ conn_last.source = "pool" => conn_last.alive
       /\ conn_last.skipped \cap (SeqToSet(pool) \cup out) = {}

\* a dead cached connection was skipped and the next cached entry yielded
C4_Witness ==
    /\ Pooled
    /\ conn_last.step = "acquire"
    /\ conn_last.source = "pool"
    /\ conn_last.skipped # {}

\* C5: the pool never holds more than 5 connections.
C5_PoolSizeBounded == Len(pool) <= 5

\* a healthy connection was released while the pool already held 5
C5_Witness ==
    /\ Pooled
    /\ conn_last.step = "release"
    /\ conn_last.alive
    /\ ~conn_last.room
    /\ Len(pool) = 5

\* C6: on release a connection is pushed back iff it is healthy and the pool is
\* below its capacity, and is closed otherwise: every connection ever opened is in
\* the pool, inside an open scope, or closed.
C6_DiscardedConnectionsAreClosed ==
    Pooled =>
        /\ conn_last.step = "release" =>
              (conn_last.pushed <=> (conn_last.alive /\ conn_last.room))
        /\ opened \ (SeqToSet(pool) \cup out) \subseteq closed

\* C7: when the pool has nothing to give (it is empty, or every cached connection
\* failed its probe) and pytds.connect succeeds within its retries, create_connection
\* yields the new connection; it raises only when the connection attempt itself failed.
C7_ExhaustedPoolFallsBackToNewConnection ==
    (Pooled /\ conn_last.step \in {"acquire", "raise"})
    => /\ (conn_last.exhausted /\ conn_last.connected)
          => /\ conn_last.step = "acquire"
             /\ conn_last.source = "new"
             /\ conn_last.conn = Cardinality(opened)
             /\ conn_last.conn \in out
             /\ conn_last.error = None
       /\ conn_last.step = "raise"
          => /\ ~conn_last.connected
             /\ conn_last.error \in {"OperationalError", "ProgrammingError", "ValueError"}

\* every cached connection failed its probe and a new connection was yielded
C7_Witness ==
    /\ Pooled
    /\ conn_last.step = "acquire"
    /\ conn_last.exhausted
    /\ conn_last.skipped # {}
    /\ conn_last.source = "new"

\* C8: on the operator the factory returns for sqlserver, a scope that follows the
\* release of a healthy connection into a pool that had room is given that same
\* connection, and no new session is opened.
C8_FactoryOperatorReusesConnection ==
    [][(/\ op.via = "factory"
        /\ conn_last.step = "release"
        /\ conn_last.alive
        /\ conn_last.room
        /\ conn_last'.step = "acquire"
        /\ conn_last.conn \notin conn_last'.skipped)
       => (conn_last'.conn = conn_last.conn /\ opened' = opened)]_vars

(***************************************************************************)
(* Memoization of get_data (SpecMemo, SpecLru).                            *)
(***************************************************************************)

\* C9: a repeated get_data call with the same table-name tuple on the same operator
\* completes, returns the names the first call returned, runs no fetch and
\* registers nothing.
C9_RepeatedCallIsMemoized ==
    (data_last.step = "get_data" /\ data_last.seen)
    => /\ data_last.outcome = "returned"
       /\ ~data_last.fetch
       /\ data_last.registered = <<>>
       /\ \E f \in first_result : f.key = data_last.key /\ f.names = data_last.names

TagOperators(database) ==
    IF database = "bigquery" THEN {"BigQueryOperator"}
    ELSE IF database = "snowflake" THEN {"SnowflakeOperator"}
    ELSE IF database = "sap" THEN {"SAPDatasphereOperator"}
    ELSE IF database = "sqlserver" THEN {"SQLServerOperator", "SQLServerOperatorPytds"}
    ELSE {}

\* C12: get_database_operator never raises; it returns the operator of the selected
\* tag, and that only when the tag's credentials are configured, or the
\* NoDatabaseOperator, never the operator of another backend.
C12_FactoryNeverRaises ==
    call_last.step = "factory" =>
        /\ call_last.status = "returned"
        /\ \/ call_last.class = "NoDatabaseOperator"
           \/ /\ call_last.class \in TagOperators(call_last.database)
              /\ call_last.creds = "configured"

\* the first candidate that exists and parses, 0 when there is none
FirstUsable ==
    IF \E i \in 1..Candidates : files[i] = "valid"
    THEN CHOOSE i \in 1..Candidates :
             files[i] = "valid" /\ \A j \in 1..(i - 1) : files[j] # "valid"
    ELSE 0

\* C21: load_app_infra returns the configuration of the first of the three locations
\* that exists and parses, and raises only when none does: a missing or unparsable
\* file at an earlier location never keeps a valid later one from being used.
C21_FirstUsableLocationWins ==
    app_infra.status # "unloaded" =>
        IF FirstUsable = 0
        THEN app_infra.status = "raised"
        ELSE app_infra.status = "returned" /\ app_infra.candidate = FirstUsable

\* C20: when app_infra.json is missing from all three locations, load_app_infra
\* raises ValueError and returns no default configuration.
C20_MissingConfigurationIsFatal ==
    (app_infra.status # "unloaded" /\ \A i \in 1..Candidates : files[i] = "missing") =>
        /\ app_infra.status = "raised"
        /\ app_infra.error = "ValueError"

\* C20 witness: load_app_infra ran with no configuration file anywhere and raised.
C20_Witness ==
    /\ \A i \in 1..Candidates : files[i] = "missing"
    /\ app_infra.status = "raised"
    /\ app_infra.candidate = Candidates

(***************************************************************************)
(* Operators (SpecOperator).                                               *)
(***************************************************************************)

\* C13: constructing an operator of any backend directly from a credential set that
\* is not configured fails at construction with a configuration error (ValueError),
\* so that no operator exists that could attempt a connection with it.
C13_UnconfiguredConstructionFails ==
    /\ (call_last.step = "construct" /\ ~call_last.configured) =>
            (call_last.status = "raised" /\ call_last.error = "ValueError")
    /\ (op.via = "direct" /\ op.class # "NoDatabaseOperator") => op.configured

\* C14: on every backend operator the connection create_connection yielded is
\* released (closed, or returned to the pool) when the scope ends, whether its body
\* returned or raised.
C14_ConnectionReleasedOnEveryExit ==
    (call_last.step = "scope" /\ call_last.yielded
        /\ call_last.class # "NoDatabaseOperator") =>
        call_last.released \in {"closed", "pooled"}

\* the operator was built by the factory for the tag "no_database"
NoDatabaseSelected ==
    /\ app_infra.database = "no_database"
    /\ op.via = "factory"

\* C11: for the tag "no_database" the factory returns an operator whose get_tables,
\* execute_query and get_data return the empty list, without raising, without
\* opening a connection and without registering a dataset.
C11_NoDatabaseOperatorIsInert ==
    NoDatabaseSelected =>
        /\ op.class = "NoDatabaseOperator"
        /\ call_last.step \in {"get_tables", "execute_query", "get_data"} =>
              /\ call_last.status = "returned"
              /\ call_last.result = <<>>
              /\ ~call_last.connected
              /\ ~call_last.yielded
              /\ call_last.datasets = {}
        /\ pool = <<>>

\* C11 witness: get_data was called with two tables on the operator the factory
\* returned for "no_database".
C11_Witness ==
    /\ NoDatabaseSelected
    /\ call_last.step = "get_data"
    /\ call_last.request = <<"a", "b">>
    /\ call_last.result = <<>>

\* C24: an operator opens its connections with the credential set it was constructed
\* with, whatever the environment and the secret sources hold at connection time: it
\* never resolves credentials again.
C24_ConnectsWithConstructedCredentials ==
    (call_last.step = "scope" /\ call_last.connected) =>
        call_last.params = "constructed"

\* C25: on every backend operator execute_query puts the effective timeout (the
\* argument, or default_timeout when the argument is None) in force through the
\* backend's mechanism before the query is submitted.
C25_QueryRunsUnderEffectiveTimeout ==
    (call_last.step = "execute_query" /\ call_last.submissions > 0) =>
        call_last.in_force = (IF call_last.timeout = 0 THEN 300 ELSE call_last.timeout)

\* C15: when the backend rejects a submitted query with a SQL error, execute_query
\* has submitted the query exactly once and raises InvalidGeneratedCode; the
\* rejected query is never submitted again, on any operator.
C15_RejectedQueryIsNotRetried ==
    (call_last.step = "execute_query" /\ call_last.rejected) =>
        /\ call_last.status = "raised"
        /\ call_last.raised.type = "InvalidGeneratedCode"
        /\ call_last.submissions = 1

\* C16: every InvalidGeneratedCode execute_query raises, on every operator, carries
\* the text of the submitted query and, as its cause, the error first raised (not
\* another InvalidGeneratedCode and not an empty cause).
C16_QueryErrorCarriesQueryAndCause ==
    (call_last.step = "execute_query" /\ call_last.status = "raised") =>
        /\ call_last.raised.code = "query"
        /\ \/ call_last.raised.exception.origin = "original"
           \/ call_last.raised.cause.origin = "original"

\* the invocations a wrapped call makes when its counter starts at zero: up to the
\* first outcome that is not a transient failure, and at most `budget`
FreshAttempts(types, budget) ==
    IF \E i \in 1..budget : types[i] # "OperationalError"
    THEN CHOOSE i \in 1..budget :
             types[i] # "OperationalError" /\ \A j \in 1..(i - 1) : types[j] = "OperationalError"
    ELSE budget

\* the delays slept between `n` attempts starting from `initial`, doubling
FreshDelays(n, initial) == [k \in 1..(n - 1) |-> initial * Pow(2, k - 1)]

\* C23: every invocation of a retry-wrapped operation starts with a fresh attempt
\* counter and the initial delay, whatever earlier invocations did: on the SQL Server
\* operators connection creation has its 3 attempts and the query its 2, each
\* independent of the other and of a budget exhausted by the call before.
C23_RetryBudgetsAreIndependent ==
    (call_last.step = "execute_query"
        /\ call_last.class \in {"SQLServerOperator", "SQLServerOperatorPytds"}) =>
        /\ call_last.connects > 0 =>
              /\ call_last.connects = FreshAttempts(call_last.script, 3)
              /\ call_last.connect_sleeps = FreshDelays(call_last.connects, 2)
        /\ call_last.yielded =>
              LET types == [i \in 1..MaxAttempts |->
                               IF call_last.sql[i] = "ok" THEN "ok"
                               ELSE exception_type(call_last.sql[i])]
              IN  /\ call_last.submissions = FreshAttempts(types, 2)
                  /\ call_last.query_sleeps = FreshDelays(call_last.submissions, 1)

\* C23 witness: the call before exhausted a retry budget; this one needed all three
\* connection attempts and then both submissions of the query.
C23_Witness ==
    /\ call_last.step = "execute_query"
    /\ call_last.class = "SQLServerOperator"
    /\ call_last.prior
    /\ call_last.connects = 3
    /\ call_last.yielded
    /\ call_last.submissions = 2
    /\ call_last.status = "raised"

\* C26: on every backend operator a successful get_tables returns the names of all
\* base tables and all views of the configured schema, ordered by object type and by
\* name within each type.
C26_GetTablesListsTablesThenViews ==
    (call_last.step = "get_tables" /\ call_last.class # "NoDatabaseOperator"
        /\ call_last.status = "returned" /\ call_last.error = None) =>
        call_last.result =
            SelectSeq(<<"a", "b">>, LAMBDA t : call_last.schema[t] = "BASE TABLE")
                \o SelectSeq(<<"a", "b">>, LAMBDA t : call_last.schema[t] = "VIEW")

\* C17: get_tables never raises, on any operator: whatever fails (the connection,
\* the credentials, the listing query), it returns the empty list.
C17_GetTablesNeverRaises ==
    call_last.step = "get_tables" =>
        /\ call_last.status = "returned"
        /\ call_last.error # None => call_last.result = <<>>

\* C17 witness: get_tables on a backend operator whose create_connection raised a
\* non-driver error (ValueError) returned the empty list.
C17_Witness ==
    /\ call_last.step = "get_tables"
    /\ call_last.class # "NoDatabaseOperator"
    /\ call_last.error = "ValueError"
    /\ call_last.status = "returned"
    /\ call_last.result = <<>>

\* C18: a table whose fetch fails does not stop the others and does not make get_data
\* raise: the list returned holds exactly the names of the tables whose fetch
\* succeeded, in request order (in calls in which no registration fails).
C18_GetDataReturnsFetchedTables ==
    (call_last.step = "get_data" /\ ~call_last.reg_failed) =>
        /\ call_last.status = "returned"
        /\ call_last.result = call_last.fetched

\* C19: every dataset get_data registers, on every operator, has only text (or null)
\* cells and at most sample_size rows.
C19_RegisteredDatasetsAreTextAndSampled ==
    call_last.step = "get_data" =>
        \A d \in call_last.datasets :
            /\ d.cells = "text"
            /\ d.rows <= call_last.sample_size

\* C27: within one get_data call the datasets registered have pairwise distinct
\* names, whatever tuple of table names is requested.
C27_RegisteredNamesAreDistinct ==
    call_last.step = "get_data" =>
        \A i, j \in 1..Len(call_last.registered) :
            i # j => call_last.registered[i] # call_last.registered[j]

\* C30: on every operator the list get_data returns is the sequence of the names of
\* the datasets registered during the call, also when a register_dataset call fails
\* part-way through: no dataset is registered without its name being returned.
C30_ReturnedNamesAreRegisteredNames ==
    call_last.step = "get_data" =>
        call_last.result = call_last.registered

\* the fields a variant declares without a default, and those its is_configured
\* or its operator's connection parameters require
MandatoryFields(variant) ==
    CASE variant = "SnowflakeCredentials" ->
             {"user", "account", "warehouse", "database", "db_schema", "role"}
      [] variant = "SAPDatasphereCredentials" ->
             {"host", "port", "user", "password", "db_schema"}
      [] variant = "SQLServerCredentials" ->
             {"host", "port", "user", "password", "database", "db_schema"}

\* C28: for each credential variant, is_configured() returns true only if every
\* mandatory field is present and non-empty, and for Snowflake additionally only
\* if a key-file path or a password that can be used to authenticate is present
C28_ConfiguredMeansMandatoryFieldsSet ==
    (call_last.step = "is_configured" /\ call_last.configured) =>
        /\ \A f \in MandatoryFields(call_last.class) : call_last.fields[f] = "set"
        /\ call_last.class = "SnowflakeCredentials" =>
               \/ call_last.fields["snowflake_key_path"] = "set"
               \/ call_last.fields["password"] = "set"

\* C29: on a SQLServerOperator used from one thread, with scopes nested or
\* overlapping, no connection is at once in the pool and checked out, no
\* connection appears twice in the pool, and no connection is handed to a scope
\* while another open scope holds it
C29_PoolAndScopesAreExclusive ==
    /\ [](op.class = "SQLServerOperator" =>
            /\ SeqToSet(pool) \cap out = {}
            /\ \A i, j \in 1..Len(pool) : i # j => pool[i] # pool[j])
    /\ [][(op.class = "SQLServerOperator" /\ conn_last'.step = "acquire") =>
              conn_last'.conn \notin out]_vars

\* C29 witness: a pooled connection is reacquired while another scope is open and
\* another connection waits in the pool
C29_Witness ==
    /\ op.class = "SQLServerOperator"
    /\ conn_last.step = "acquire"
    /\ conn_last.source = "pool"
    /\ Cardinality(out) >= 2
    /\ Len(pool) >= 1

\* C31: on every backend operator, whatever fails inside execute_query
\* (unconfigured credentials, a failed connection, exhausted retries, a rejected
\* statement, an error while converting the result) reaches the caller as
\* InvalidGeneratedCode: a call that does not yield a connection raises, and
\* whatever a call raises is an InvalidGeneratedCode
C31_ExecuteQueryRaisesOnlyInvalidGeneratedCode ==
    (call_last.step = "execute_query" /\ call_last.class # "NoDatabaseOperator") =>
        /\ ~call_last.yielded => call_last.status = "raised"
        /\ (call_last.yielded /\ call_last.submissions = 1
              /\ call_last.sql[1] # "ok") => call_last.status = "raised"
        /\ call_last.status = "raised" => call_last.raised.type = "InvalidGeneratedCode"

\* C31 witness: the conversion of the rows a SQLServerOperator query returned raised
\* TypeError, and the caller got it inside an InvalidGeneratedCode
C31_Witness ==
    /\ call_last.step = "execute_query"
    /\ call_last.class = "SQLServerOperator"
    /\ call_last.sql[1] = "convert:TypeError"
    /\ call_last.status = "raised"
    /\ call_last.raised.exception = Original("TypeError")

\* C32: a retry-wrapped call ends after at most max_attempts invocations; when the
\* function first succeeds on attempt k <= max_attempts after k-1 transient
\* failures the wrapper returns, having invoked it exactly k times and slept
\* exactly k-1 times; and for every max_attempts >= 1 it is invoked at least once
C32_RetryTerminatesWithinMaxAttempts ==
    retry_out.status # "idle" =>
        /\ Calls(retry_out) <= retry_in.max_attempts
        /\ retry_in.max_attempts >= 1 => Calls(retry_out) >= 1
        /\ \A k \in 1..MaxAttempts :
              (/\ k <= retry_in.max_attempts
               /\ AllTransient(retry_in, k - 1)
               /\ retry_in.script[k] = "ok")
              => /\ retry_out.status = "returned"
                 /\ Calls(retry_out) = k
                 /\ Len(Sleeps(retry_out)) = k - 1

\* C32 witness: success on the third and last attempt, after two transient failures
C32_Witness ==
    /\ retry_out.status = "returned"
    /\ retry_in.max_attempts = 3
    /\ AllTransient(retry_in, 2)
    /\ retry_in.script[3] = "ok"
    /\ Calls(retry_out) = 3
    /\ Len(Sleeps(retry_out)) = 2

\* C37: SnowflakeOperator.get_tables returns the object names the listing query
\* produced whenever the connection and the listing query succeed, whatever the
\* diagnostic statements around it (session info, schema-exists check, SHOW GRANTS) do
C37_DiagnosticsDoNotAffectListing ==
    (call_last.step = "get_tables" /\ call_last.class = "SnowflakeOperator"
        /\ call_last.yielded /\ call_last.sql[1] = "ok") =>
        call_last.result = listing("SnowflakeOperator", call_last.schema, FALSE)

\* C38: when establishing the connection fails inside create_connection, on every
\* backend operator, the error the caller gets is the driver's connection error
\* (for the pooled operator: the one its last connection attempt raised), not an
\* error raised by the scope's own cleanup
C38_ConnectionErrorReachesCaller ==
    (call_last.step = "scope" /\ ~call_last.yielded
        /\ call_last.error \notin {"ValueError", "ValidationError"}) =>
        call_last.error =
            IF call_last.class = "SQLServerOperator"
            THEN wrapper(create_new_connection_retry(call_last.script)).error.type
            ELSE call_last.script[1]

\* C39: a second get_data call with the same table-name tuple, issued on the same
\* operator while the first is suspended at a dataset-registration await, does not
\* fail, returns the names the first call returns, and causes no second fetch
C39_OverlappingCallSharesFirstResult ==
    data_last.overlap =>
        /\ data_last.outcome \in {"pending", "returned"}
        /\ ~data_last.fetch
        /\ data_last.outcome = "returned" =>
              \E f \in first_result : f.key = data_last.key /\ f.names = data_last.names

(***************************************************************************)
(* PersistentStorage (SpecStorage, SpecSavers).                            *)
(***************************************************************************)

\* the links stored under the name of the last call's file
LinksOfLast == {l \in store.links : l.name = storing_label(store.last.user, store.last.name)}

C34_ConcurrentSavesConverge ==
    /\ \A l \in store.links : l.catalogId \in store.catalog
    /\ (store.calls = {} /\ store.last.op = "save") =>
          /\ Cardinality(store.links) = 1
          /\ \A l \in store.links : l.catalogId = Len(store.uploads)
          /\ \A id \in 1..(Len(store.uploads) - 1) : store.deletions[id] = 1

\* the user through whose PersistentStorage a catalog file was uploaded, and the
\* file name it was saved under
SavedBy(id) == store.uploads[id]

\* C35: for distinct user ids u and v, PersistentStorage(u).files() returns exactly
\* the names of the files saved through PersistentStorage(u), never a name derived
\* from a file saved through PersistentStorage(v), and fetch and delete under u
\* never touch an entry saved under v
C35_UsersAreIsolated ==
    /\ store.last.op = "files" =>
          store.last.before =
              {SavedBy(l.catalogId).name :
                  l \in {k \in store.last.links :
                            SavedBy(k.catalogId).user = store.last.user}}
    /\ (store.last.op \in {"fetch", "delete"} /\ store.last.prev # NoLink) =>
          SavedBy(store.last.prev.catalogId).user = store.last.user

\* after delete_file(name) the listing of the user does not hold name, and the link
\* and the catalog file it referenced are gone
DeleteRemoves ==
    store.last.op = "delete" =>
        /\ store.last.name \notin PersistentStorage_files(store.last.user, store.links)
        /\ LinksOfLast = {}
        /\ store.last.prev # NoLink => store.last.prev.catalogId \notin store.catalog

\* delete_file and fetch_from_storage on a name without link change nothing
NoLinkNoChange ==
    (store.last.op \in {"delete", "fetch"} /\ store.last.prev = NoLink) =>
        /\ store.links = store.last.links
        /\ store.catalog = store.last.catalog

\* C36 as stated: after delete_file(name) the name, its link and its catalog file
\* are gone; delete_file and fetch_from_storage on a name with no link change
\* nothing; and a save followed by the delete of the same name restores the
\* listing that held before the save
C36_DeleteRestoresListingBeforeSave ==
    store.calls = {} =>
        /\ DeleteRemoves
        /\ NoLinkNoChange
        /\ (store.last.op = "delete" /\ store.last.prior = "save") =>
              PersistentStorage_files(store.last.user, store.links) = store.last.prior_before

\* C36 amended: as above, the last part for a save of a name that had no link: a
\* save of a new name followed by the delete of that name restores the listing that
\* held before the save
C36_DeleteRestoresListingBeforeNewSave ==
    store.calls = {} =>
        /\ DeleteRemoves
        /\ NoLinkNoChange
        /\ (store.last.op = "delete" /\ store.last.prior = "save"
              /\ store.last.prior_prev = NoLink) =>
              PersistentStorage_files(store.last.user, store.links) = store.last.prior_before

\* C36 witness: a name that was not stored has been saved and then deleted, while
\* another file is stored
C36_Witness ==
    /\ store.calls = {}
    /\ store.last.op = "delete"
    /\ store.last.prior = "save"
    /\ store.last.prior_prev = NoLink
    /\ store.last.prev # NoLink
    /\ store.links # {}

====
